---- MODULE Spec2Model ----
(***************************************************************************)
(* Mandarin Flow: the spaced-repetition scheduler (calculateReview,        *)
(* getDueItems), the progression service (effective HSK level, mastery     *)
(* bonus, XP rank) and the App component that glues them to the learner    *)
(* profile, the daily goals and the streak.                                *)
(*                                                                         *)
(* Number representation.                                                  *)
(*   - easeFactor is kept in hundredths (2.5 is 250): every ease the code  *)
(*     produces is a multiple of 0.05.                                     *)
(*   - interval is kept in units of 1/IntervalScale day, IntervalScale a   *)
(*     power of 5: "Hard" multiplies by 6/5, every other rating yields a   *)
(*     whole number of days.  The arithmetic is exact rational arithmetic  *)
(*     (the code's IEEE doubles are not modelled bit by bit).              *)
(*   - a timestamp is a record [d, ms]: d whole 24-hour days since the     *)
(*     epoch, ms milliseconds beyond them; the epoch (Date 0) is [d 0,     *)
(*     ms 0].                                                              *)
(*   - the local calendar (new Date(y, m, d)) has one daylight-saving      *)
(*     change: the clocks go back one hour on FallBackDay, which lasts 25  *)
(*     hours; every other local day lasts 24 hours.                        *)
(***************************************************************************)
EXTENDS Integers, Sequences, FiniteSets, TLC

VARIABLES
    now,            \* Date.now(): the wall clock
    vocab,          \* App state: Vocabulary[]
    srsState,       \* App state: SRSState[]
    student,        \* App state: StudentProfile
    loading,        \* App state: loading flag (UI is blocked while TRUE)
    localStorage,   \* dbService: [profile, vocab, srs], Absent when unset
    view,           \* App state: ViewState
    currentCard,    \* Flashcards state: the card shown, NoCard when none
    isAnimating,    \* Flashcards state: TRUE while the 300 ms timeout is pending
    gradeRating,    \* Flashcards: the rating captured by the last handleGrade
    sessionReviewsCompleted, \* Flashcards state
    masteryXP,      \* handleSRSUpdate: the masteryXP of the last call
    dueItems,       \* getDueItems: [newCardLimit, result] of the last call
    masteryLog,     \* history: the ids of the items a mastery bonus was paid for
    readingPaid,    \* history: [day, n], the local day the reading XP was last
                    \* added to xp and how often it was added on that day
    timers,         \* the pending 300 ms timeouts of handleGrade, in firing
                    \* order, each with the values its callback closes over
    feedback,       \* SpeakingPractice state: the pronunciation feedback,
                    \* NoFeedback when there is none
    xpRank,         \* getXPRank: [xp, rank] of the last call
    levelStats,     \* getLevelStats: the result of the last call
    pc              \* "app" in the App; in a function harness "ready" before
                    \* the first call and "done" after a call

vars == << now, vocab, srsState, student, loading, localStorage, view,
           currentCard, isAnimating, gradeRating, sessionReviewsCompleted,
           masteryXP, dueItems, masteryLog, readingPaid, timers, feedback,
           xpRank, levelStats, pc >>

\* the variables only the function harnesses write
callVars == << feedback, xpRank, levelStats >>

----------------------------------------------------------------------------
(* Bounds of the model *)

MaxHardRun == 2      \* consecutive "Hard" gradings an interval can represent
MaxReviews == 4      \* gradings of the item in the scheduler harness
StartDay == 2        \* the day the clock shows when the program starts
MaxDays == 2         \* days the clock may advance
MaxMinutes == 1      \* minutes the clock may advance within its day
MaxGradings == 1     \* graded reviews in a run of the App
MaxXP == 200         \* xp up to which reading / speaking tasks are completed
MaxVocab == 4        \* vocabulary size up to which words are imported
MaxDueItems == 3     \* review states in the collection given to getDueItems

RECURSIVE Pow5(_)
Pow5(n) == IF n = 0 THEN 1 ELSE 5 * Pow5(n - 1)

IntervalScale == Pow5(MaxHardRun)

----------------------------------------------------------------------------
(* Time *)

OneDayMs == 86400000
RelearnMs == 60000

Epoch == [d |-> 0, ms |-> 0]

TimePlusMs(t, ms) ==
    [d |-> t.d + ((t.ms + ms) \div OneDayMs), ms |-> (t.ms + ms) % OneDayMs]

\* t + interval * oneDay, interval in 1/IntervalScale day
TimePlusInterval(t, interval) ==
    LET whole == interval \div IntervalScale
        part  == (interval % IntervalScale) * (OneDayMs \div IntervalScale)
        base  == TimePlusMs(t, part)
    IN  [d |-> base.d + whole, ms |-> base.ms]

TimeLeq(a, b) == a.d < b.d \/ (a.d = b.d /\ a.ms <= b.ms)
TimeLess(a, b) == a.d < b.d \/ (a.d = b.d /\ a.ms < b.ms)

OneHourMs == 3600000
HoursPerDay == OneDayMs \div OneHourMs

\* the local day on which the clocks go back one hour
FallBackDay == StartDay + 1

\* getFullYear / getMonth / getDate: the local calendar day of a timestamp.
\* Up to the change local midnight falls at 23:00 of the timestamp's scale,
\* after it at 0:00.
LocalDay(t) ==
    IF t.d < FallBackDay /\ t.ms >= OneDayMs - OneHourMs THEN t.d + 1 ELSE t.d

\* new Date(y, m, d).getTime(): the timestamp of local midnight of day k
LocalMidnight(k) ==
    IF k <= FallBackDay THEN [d |-> k - 1, ms |-> OneDayMs - OneHourMs]
    ELSE [d |-> k, ms |-> 0]

\* local midnight of the timestamp's day
StartOfDay(t) == LocalMidnight(LocalDay(t))

----------------------------------------------------------------------------
(* srsService: calculateReview *)

EaseFloor == 130            \* 1.3
InitialEase == 250          \* 2.5

Max(a, b) == IF a >= b THEN a ELSE b
Min(a, b) == IF a <= b THEN a ELSE b

\* Math.round(p / q) for p >= 0, q > 0: halves round up
RoundDiv(p, q) == (2 * p + q) \div (2 * q)

\* Math.round(a * b / c), computed without forming a * b
MulDivRound(a, b, c) == (a \div c) * b + RoundDiv((a % c) * b, c)

Days(n) == n * IntervalScale

\* "Hard" keeps an exact interval only while the product by 6/5 is a multiple
\* of the unit
HardRepresentable(interval) == (interval * 6) % 5 = 0

\* a faulty variant: the product is truncated instead of rounded
GoodIntervalTruncating(interval, easeFactor) ==
    IF interval = 0 THEN Days(1)
    ELSE IF interval = Days(1) THEN Days(6)
    ELSE Days((interval * easeFactor) \div (IntervalScale * 100))

GoodInterval(interval, easeFactor) ==
    IF interval = 0 THEN Days(1)
    ELSE IF interval = Days(1) THEN Days(6)
    ELSE Days(MulDivRound(interval, easeFactor, IntervalScale * 100))

\* a faulty variant: the product is taken with the ease after the update
EasyIntervalNewEase(interval, easeFactor) ==
    IF interval = 0 THEN Days(4)
    ELSE IF interval = Days(1) THEN Days(10)
    ELSE Days(MulDivRound(interval, (easeFactor + 15) * 13, IntervalScale * 1000))

EasyInterval(interval, easeFactor) ==
    IF interval = 0 THEN Days(4)
    ELSE IF interval = Days(1) THEN Days(10)
    ELSE Days(MulDivRound(interval, easeFactor * 13, IntervalScale * 1000))

\* a faulty variant: no lower limit of one day
HardIntervalNoFloor(interval) == (interval * 6) \div 5

HardInterval(interval) == Max(Days(1), (interval * 6) \div 5)

NewInterval(item, rating) ==
    CASE rating = 0 -> 0
      [] rating = 1 -> HardInterval(item.interval)
      [] rating = 2 -> GoodInterval(item.interval, item.easeFactor)
      [] rating = 3 -> EasyInterval(item.interval, item.easeFactor)
      [] OTHER -> item.interval

\* a faulty variant: the ease is lowered without the floor
NewEaseUnclamped(item, rating) ==
    CASE rating = 0 -> item.easeFactor - 20
      [] rating = 1 -> item.easeFactor - 15
      [] rating = 3 -> item.easeFactor + 15
      [] OTHER -> item.easeFactor

NewEase(item, rating) ==
    CASE rating = 0 -> Max(EaseFloor, item.easeFactor - 20)
      [] rating = 1 -> Max(EaseFloor, item.easeFactor - 15)
      [] rating = 3 -> item.easeFactor + 15
      [] OTHER -> item.easeFactor

\* a faulty variant: a forgotten item is due at once, not in a minute
NewDueDateNoRelearn(interval, t) ==
    IF interval = 0 THEN t ELSE TimePlusInterval(t, interval)

\* a faulty variant: only the whole days of the interval are added
NewDueDateWholeDays(interval, t) ==
    IF interval = 0 THEN TimePlusMs(t, RelearnMs)
    ELSE TimePlusInterval(t, Days(interval \div IntervalScale))

NewDueDate(interval, t) ==
    IF interval = 0 THEN TimePlusMs(t, RelearnMs) ELSE TimePlusInterval(t, interval)

\* a faulty variant: "Hard" counts as a lapse too
NewLapsesOnHard(item, rating) ==
    IF rating = 0 \/ rating = 1 THEN item.lapses + 1 ELSE item.lapses

NewLapses(item, rating) ==
    IF rating = 0 THEN item.lapses + 1 ELSE item.lapses

calculateReview(item, rating, t) ==
    [ item EXCEPT
        !.easeFactor = NewEase(item, rating),
        !.interval   = NewInterval(item, rating),
        !.dueDate    = NewDueDate(NewInterval(item, rating), t),
        !.reviews    = item.reviews + 1,
        !.lapses     = NewLapses(item, rating),
        !.lastReview = t ]

----------------------------------------------------------------------------
(* srsService: getDueItems *)

\* a faulty variant: the oldest due date first, lapses only to break ties
CompareDueByDate(a, b) ==
    IF TimeLess(a.dueDate, b.dueDate) THEN -1
    ELSE IF TimeLess(b.dueDate, a.dueDate) THEN 1
    ELSE b.lapses - a.lapses

\* the comparator of the sort: negative when a goes before b
CompareDue(a, b) ==
    IF b.lapses # a.lapses THEN b.lapses - a.lapses
    ELSE IF TimeLess(a.dueDate, b.dueDate) THEN -1
    ELSE IF TimeLess(b.dueDate, a.dueDate) THEN 1
    ELSE 0

\* a faulty variant: an item goes before the items it compares equal to
RECURSIVE InsertDueBeforeEqual(_, _)
InsertDueBeforeEqual(x, s) ==
    IF s = << >> THEN << x >>
    ELSE IF CompareDue(x, Head(s)) <= 0 THEN << x >> \o s
    ELSE << Head(s) >> \o InsertDueBeforeEqual(x, Tail(s))

RECURSIVE InsertDue(_, _)
InsertDue(x, s) ==
    IF s = << >> THEN << x >>
    ELSE IF CompareDue(x, Head(s)) < 0 THEN << x >> \o s
    ELSE << Head(s) >> \o InsertDue(x, Tail(s))

\* Array.prototype.sort is stable: equal items keep their input order
RECURSIVE SortDue(_)
SortDue(s) ==
    IF s = << >> THEN << >>
    ELSE InsertDue(s[Len(s)], SortDue(SubSeq(s, 1, Len(s) - 1)))

IsReviewed(item) == item.reviews > 0
IsNew(item) == item.reviews = 0
IsDue(item, t) == TimeLeq(item.dueDate, t)

\* a faulty variant: the limit is off by one
SliceToInclusive(s, n) ==
    IF n >= 0 THEN SubSeq(s, 1, Min(n + 1, Len(s)))
    ELSE SubSeq(s, 1, Max(Len(s) + n, 0))

\* Array.prototype.slice(0, n)
SliceTo(s, n) ==
    IF n >= 0 THEN SubSeq(s, 1, Min(n, Len(s)))
    ELSE SubSeq(s, 1, Max(Len(s) + n, 0))

\* a faulty variant: the new cards are cut to the limit before they are sorted
getDueItemsCutUnsorted(items, newCardLimit, t) ==
    LET due    == SelectSeq(items, LAMBDA item : IsDue(item, t))
        sorted == SortDue(due)
    IN  IF newCardLimit = -1 THEN sorted
        ELSE SelectSeq(sorted, IsReviewed)
               \o SortDue(SliceTo(SelectSeq(due, IsNew), newCardLimit))

getDueItems(items, newCardLimit, t) ==
    LET due    == SelectSeq(items, LAMBDA item : IsDue(item, t))
        sorted == SortDue(due)
    IN  IF newCardLimit = -1 THEN sorted
        ELSE SelectSeq(sorted, IsReviewed) \o SliceTo(SelectSeq(sorted, IsNew), newCardLimit)

\* a faulty variant: the collection itself is sorted, then filtered
ItemsAfterDueSortedInPlace(items, newCardLimit, t) == SortDue(items)

\* the array passed to getDueItems after the call: filter builds a new
\* array, and it is that array that sort reorders in place
ItemsAfterDue(items, newCardLimit, t) == items

\* the object passed to calculateReview after the call: its fields are copied
\* into locals, the locals are assigned, and the result is a new object
ItemAfterReview(item, rating, t) == item

----------------------------------------------------------------------------
(* constants.ts and services/progression.ts *)

MASTERY_THRESHOLD_DAYS == 21

HSK_WORD_COUNTS == << 150, 150, 300, 600, 1300, 2500 >>
WORD_MASTERY_XP == << 10, 20, 40, 80, 160, 320 >>

\* srsState.find(s => s.id === id): index of the first match, 0 when none
FindSrs(srs, id) ==
    LET hits == { j \in 1..Len(srs) : srs[j].id = id }
    IN  IF hits = {} THEN 0 ELSE CHOOSE j \in hits : \A k \in hits : j <= k

\* vocab.find(v => v.id === id)
FindWord(words, id) ==
    LET hits == { j \in 1..Len(words) : words[j].id = id }
    IN  IF hits = {} THEN 0 ELSE CHOOSE j \in hits : \A k \in hits : j <= k

\* a faulty variant: a word without a review state counts as mastered
IsMasteredOrMissing(srs, id) ==
    LET j == FindSrs(srs, id)
    IN  j = 0 \/ srs[j].interval > Days(MASTERY_THRESHOLD_DAYS)

\* srsItem && srsItem.interval > MASTERY_THRESHOLD_DAYS
IsMastered(srs, id) ==
    LET j == FindSrs(srs, id)
    IN  j # 0 /\ srs[j].interval > Days(MASTERY_THRESHOLD_DAYS)

MasteredCount(level, words, srs) ==
    Cardinality({ i \in 1..Len(words) :
                    words[i].level = level /\ IsMastered(srs, words[i].id) })

\* a faulty variant: the denominator is the number of the learner's words
\* of the level
TotalRequiredOwnWords(level) ==
    Max(1, Cardinality({ i \in 1..Len(vocab) : vocab[i].level = level }))

TotalRequired(level) ==
    IF level \in 1..6 THEN HSK_WORD_COUNTS[level] ELSE 150

getLevelStats(level, words, srs) ==
    [ level         |-> level,
      masteredCount |-> MasteredCount(level, words, srs),
      totalRequired |-> TotalRequired(level),
      percentage    |-> Min(100, RoundDiv(MasteredCount(level, words, srs) * 100,
                                          TotalRequired(level))) ]

\* the gate: a level passes unless its percentage is below 80
LevelBlocks(level, words, srs) == getLevelStats(level, words, srs).percentage < 80

calculateEffectiveHSKLevel(words, srs) ==
    LET blocked == { l \in 1..5 : LevelBlocks(l, words, srs) }
    IN  IF blocked = {} THEN 6
        ELSE CHOOSE l \in blocked : \A k \in blocked : l <= k

MasteryReward(level) ==
    IF level \in 1..6 THEN WORD_MASTERY_XP[level] ELSE 10

\* checkMasteryBonus with the threshold itself counted as mastered
checkMasteryBonusInclusive(oldInterval, newInterval, wordId, words) ==
    IF oldInterval <= Days(MASTERY_THRESHOLD_DAYS)
       /\ newInterval >= Days(MASTERY_THRESHOLD_DAYS)
       /\ FindWord(words, wordId) # 0
    THEN MasteryReward(words[FindWord(words, wordId)].level)
    ELSE 0

checkMasteryBonus(oldInterval, newInterval, wordId, words) ==
    IF oldInterval <= Days(MASTERY_THRESHOLD_DAYS)
       /\ newInterval > Days(MASTERY_THRESHOLD_DAYS)
       /\ FindWord(words, wordId) # 0
    THEN MasteryReward(words[FindWord(words, wordId)].level)
    ELSE 0

\* a faulty variant: the lower end of a range belongs to the rank below
getXPRankInclusive(xp) ==
    IF xp <= 500 THEN "Novice"
    ELSE IF xp <= 1500 THEN "Apprentice"
    ELSE IF xp <= 3500 THEN "Scholar"
    ELSE IF xp <= 7000 THEN "Master"
    ELSE IF xp <= 15000 THEN "Grandmaster"
    ELSE "Sage"

getXPRank(xp) ==
    IF xp < 500 THEN "Novice"
    ELSE IF xp < 1500 THEN "Apprentice"
    ELSE IF xp < 3500 THEN "Scholar"
    ELSE IF xp < 7000 THEN "Master"
    ELSE IF xp < 15000 THEN "Grandmaster"
    ELSE "Sage"

----------------------------------------------------------------------------
(* constants.ts, App.tsx: initial data and constants *)

REVIEW_CARD == 1
COMPLETE_READING == 50
DAILY_STREAK == 100
DEFAULT_SPEAKING_XP == 20

DAILY_GOAL == 20
SESSION_BATCH_SIZE == 20
DAILY_NEW_CARD_LIMIT == 15
FLASHCARDS_NEW_CARD_LIMIT == 15

NoCard == [id |-> 0]

\* SpeakingPractice: feedback is null until an analysis has set it
NoFeedback == [present |-> FALSE, score |-> 0]

NoRank == [xp |-> 0, rank |-> ""]

NoStats == [level |-> 0, masteredCount |-> 0, totalRequired |-> 0, percentage |-> 0]

Word(id, level) == [id |-> id, level |-> level]

INITIAL_VOCABULARY == << Word(6, 3), Word(7, 3), Word(10, 1) >>

\* t is Date.now() when the module is evaluated
INITIAL_SRS_STATE(t) ==
    [ i \in 1..Len(INITIAL_VOCABULARY) |->
        [ id |-> INITIAL_VOCABULARY[i].id, easeFactor |-> InitialEase, interval |-> 0,
          dueDate |-> t, reviews |-> 0, lapses |-> 0, lastReview |-> Epoch ] ]

FreshDailyProgress(t) ==
    [ present |-> TRUE, date |-> t, flashcards |-> FALSE, reading |-> FALSE,
      speaking |-> FALSE, reviewsDoneToday |-> 0 ]

\* a profile without the dailyProgress field
NoDailyProgress ==
    [ present |-> FALSE, date |-> Epoch, flashcards |-> FALSE, reading |-> FALSE,
      speaking |-> FALSE, reviewsDoneToday |-> 0 ]

INITIAL_STUDENT_PROFILE(t) ==
    [ hskLevel |-> 1, xp |-> 0, streakDays |-> 0, lastStudyDate |-> Epoch,
      dailyProgress |-> FreshDailyProgress(t) ]

----------------------------------------------------------------------------
(* services/db: localStorage *)

EmptyStorage ==
    [ hasProfile |-> FALSE, profile |-> INITIAL_STUDENT_PROFILE(Epoch),
      hasData |-> FALSE, vocab |-> << >>, srs |-> << >> ]

fetchProfile(store) ==
    IF store.hasProfile THEN store.profile
    ELSE [ hskLevel |-> 1, xp |-> 0, streakDays |-> 0, lastStudyDate |-> Epoch,
           dailyProgress |-> NoDailyProgress ]

updateProfile(store, profile) ==
    [ store EXCEPT !.hasProfile = TRUE, !.profile = profile ]

\* fetchUserData seeds the initial data when the store holds none
SeedUserData(store, t) ==
    IF store.hasData THEN store
    ELSE [ store EXCEPT !.hasData = TRUE, !.vocab = INITIAL_VOCABULARY,
                        !.srs = INITIAL_SRS_STATE(t) ]

updateSRSItem(store, item) ==
    IF ~store.hasData \/ FindSrs(store.srs, item.id) = 0 THEN store
    ELSE [ store EXCEPT !.srs[FindSrs(store.srs, item.id)] = item ]

\* a faulty variant: an imported word starts with one lapse
ImportedSRSLapsed(newWords, t) ==
    [ i \in 1..Len(newWords) |->
        [ id |-> newWords[i].id, easeFactor |-> InitialEase, interval |-> 0,
          dueDate |-> TimePlusMs(t, i - 1), reviews |-> 0, lapses |-> 1,
          lastReview |-> Epoch ] ]

\* the review states importWords creates: dueDate is now + index (0-based);
\* no lastReview is written (kept as the epoch)
ImportedSRS(newWords, t) ==
    [ i \in 1..Len(newWords) |->
        [ id |-> newWords[i].id, easeFactor |-> InitialEase, interval |-> 0,
          dueDate |-> TimePlusMs(t, i - 1), reviews |-> 0, lapses |-> 0,
          lastReview |-> Epoch ] ]

importWords(store, newWords, t) ==
    LET seeded == SeedUserData(store, t)
    IN  [ seeded EXCEPT !.vocab = seeded.vocab \o newWords,
                        !.srs = seeded.srs \o ImportedSRS(newWords, t) ]

----------------------------------------------------------------------------
(* App.tsx: loadData *)

\* diffDays of loadData and of the two handlers, in 24ths: the time between
\* the local midnights of the last study date and of today, divided by
\* 1000 * 3600 (both midnights fall on a whole hour)
DiffDays(profile, t) ==
    LET todayStart   == StartOfDay(t)
        lastDayStart == StartOfDay(profile.lastStudyDate)
    IN  (todayStart.d - lastDayStart.d) * HoursPerDay
        + (todayStart.ms - lastDayStart.ms) \div OneHourMs

LoadStreak(profile, t) ==
    IF DiffDays(profile, t) > HoursPerDay THEN 0 ELSE profile.streakDays

NeedsDailyReset(profile, t) ==
    ~profile.dailyProgress.present
    \/ TimeLess(profile.dailyProgress.date, StartOfDay(t))

LoadedProfile(profile, t) ==
    [ profile EXCEPT
        !.streakDays = LoadStreak(profile, t),
        !.dailyProgress = IF NeedsDailyReset(profile, t)
                          THEN FreshDailyProgress(t) ELSE @ ]

\* finalProfile !== profile: one of the two branches built a new object
LoadChanged(profile, t) == DiffDays(profile, t) > HoursPerDay \/ NeedsDailyReset(profile, t)

LoadData ==
    /\ loading
    /\ LET profile == fetchProfile(localStorage)
           seeded  == SeedUserData(localStorage, now)
       IN  /\ student' = LoadedProfile(profile, now)
           /\ localStorage' = IF LoadChanged(profile, now)
                               THEN updateProfile(seeded, LoadedProfile(profile, now))
                               ELSE seeded
           /\ vocab' = seeded.vocab
           /\ srsState' = seeded.srs
    /\ loading' = FALSE
    /\ UNCHANGED << now, view, currentCard, isAnimating, gradeRating,
                    sessionReviewsCompleted, masteryXP, dueItems,
                    masteryLog, readingPaid, timers, callVars, pc >>

\* the page is reloaded: the App is constructed again, localStorage stays
Reload ==
    /\ ~loading
    /\ loading' = TRUE
    /\ vocab' = << >>
    /\ srsState' = << >>
    /\ student' = INITIAL_STUDENT_PROFILE(now)
    /\ view' = "DASHBOARD"
    /\ currentCard' = NoCard
    /\ sessionReviewsCompleted' = 0
    /\ masteryXP' = 0
    /\ isAnimating' = FALSE
    /\ timers' = << >>
    /\ UNCHANGED << now, localStorage, gradeRating, dueItems,
                    masteryLog, readingPaid, callVars, pc >>

----------------------------------------------------------------------------
(* App.tsx: streak accounting of the two handlers *)

IsFirstActionToday(prev, t) == TimeLess(StartOfDay(prev.lastStudyDate), StartOfDay(t))

\* the streak of handleTaskCompletion without the first-action-of-the-day test
TaskStreakEveryAction(prev, t) ==
    IF DiffDays(prev, t) <= HoursPerDay \/ prev.streakDays = 0
    THEN prev.streakDays + 1
    ELSE 1

\* handleTaskCompletion, lines 121-133
TaskStreak(prev, t) ==
    IF IsFirstActionToday(prev, t)
    THEN IF DiffDays(prev, t) <= HoursPerDay \/ prev.streakDays = 0
         THEN prev.streakDays + 1
         ELSE 1
    ELSE prev.streakDays

\* handleSRSUpdate, lines 185-196
ReviewStreak(prev, t) ==
    IF IsFirstActionToday(prev, t)
    THEN IF DiffDays(prev, t) <= HoursPerDay \/ prev.streakDays = 0
         THEN prev.streakDays + 1
         ELSE 1
    ELSE prev.streakDays

StreakBonus(prev, t) == IF IsFirstActionToday(prev, t) THEN DAILY_STREAK ELSE 0

----------------------------------------------------------------------------
(* App.tsx: handleTaskCompletion *)

\* an accuracy score is kept in tenths (40.5 is 405)
ScoreScale == 10

\* score ? Math.round(score) : 20
TaskBaseXP(task, score) ==
    IF task = "reading" THEN COMPLETE_READING
    ELSE IF task = "speaking"
         THEN (IF score # 0 THEN RoundDiv(score, ScoreScale) ELSE DEFAULT_SPEAKING_XP)
         ELSE 0

CurrentFlags(prev, t) ==
    IF prev.dailyProgress.present THEN prev.dailyProgress ELSE FreshDailyProgress(t)

\* a faulty variant: a repeated reading completion takes the reading XP back
TaskXPGainRefund(prev, task, score, t) ==
    IF task = "reading" /\ CurrentFlags(prev, t).reading THEN 0 - COMPLETE_READING
    ELSE TaskBaseXP(task, score) + StreakBonus(prev, t)

TaskXPGain(prev, task, score, t) ==
    IF task = "reading" /\ CurrentFlags(prev, t).reading THEN 0
    ELSE TaskBaseXP(task, score) + StreakBonus(prev, t)

handleTaskCompletion(prev, task, score, t) ==
    [ prev EXCEPT
        !.xp = prev.xp + TaskXPGain(prev, task, score, t),
        !.streakDays = TaskStreak(prev, t),
        !.lastStudyDate = t,
        !.dailyProgress = [ CurrentFlags(prev, t) EXCEPT ![task] = TRUE ] ]

----------------------------------------------------------------------------
(* App.tsx: handleSRSUpdate *)

\* a faulty variant: the updated item is added and the old one is kept
ReplaceItemAppending(srs, updatedItem) == Append(srs, updatedItem)

\* srsState.map(item => item.id === updatedItem.id ? updatedItem : item)
ReplaceItem(srs, updatedItem) ==
    [ i \in 1..Len(srs) |-> IF srs[i].id = updatedItem.id THEN updatedItem ELSE srs[i] ]

OldInterval(srs, updatedItem) ==
    IF FindSrs(srs, updatedItem.id) = 0 THEN 0
    ELSE srs[FindSrs(srs, updatedItem.id)].interval

ReviewMasteryXP(srs, words, updatedItem) ==
    checkMasteryBonus(OldInterval(srs, updatedItem), updatedItem.interval,
                      updatedItem.id, words)

\* a faulty variant: the goal is met one review late
GoalMetLate(newReviewsDone) == newReviewsDone > DAILY_GOAL

GoalMet(newReviewsDone) == newReviewsDone >= DAILY_GOAL

\* a faulty variant: the level is computed before the item is replaced
ReviewedProfileStaleLevel(prev, words, updatedSRS, mastery, t) ==
    LET newReviewsDone == prev.dailyProgress.reviewsDoneToday + 1
        goalMet        == GoalMet(newReviewsDone)
    IN  [ prev EXCEPT
            !.hskLevel = calculateEffectiveHSKLevel(words, srsState),
            !.xp = prev.xp + mastery + REVIEW_CARD + StreakBonus(prev, t),
            !.streakDays = ReviewStreak(prev, t),
            !.lastStudyDate = t,
            !.dailyProgress = [ prev.dailyProgress EXCEPT
                                  !.reviewsDoneToday = newReviewsDone,
                                  !.flashcards = @ \/ goalMet ] ]

ReviewedProfile(prev, words, updatedSRS, mastery, t) ==
    LET newReviewsDone == prev.dailyProgress.reviewsDoneToday + 1
        goalMet        == GoalMet(newReviewsDone)
    IN  [ prev EXCEPT
            !.hskLevel = calculateEffectiveHSKLevel(words, updatedSRS),
            !.xp = prev.xp + mastery + REVIEW_CARD + StreakBonus(prev, t),
            !.streakDays = ReviewStreak(prev, t),
            !.lastStudyDate = t,
            !.dailyProgress = [ prev.dailyProgress EXCEPT
                                  !.reviewsDoneToday = newReviewsDone,
                                  !.flashcards = @ \/ goalMet ] ]

----------------------------------------------------------------------------
(* components/Flashcards *)

Ratings == 0..3

\* a faulty variant: the session stops one grading after the limit
FlashcardsCardPastLimit(srs, completed, t) ==
    IF completed > SESSION_BATCH_SIZE THEN NoCard
    ELSE LET allDue == getDueItems(srs, FLASHCARDS_NEW_CARD_LIMIT, t)
         IN  IF Len(allDue) > 0 THEN allDue[1] ELSE NoCard

\* the effect that picks the card to show
FlashcardsCard(srs, completed, t) ==
    IF completed >= SESSION_BATCH_SIZE THEN NoCard
    ELSE LET allDue == getDueItems(srs, FLASHCARDS_NEW_CARD_LIMIT, t)
         IN  IF Len(allDue) > 0 THEN allDue[1] ELSE NoCard

OpenFlashcards ==
    /\ ~loading
    /\ view = "DASHBOARD"
    /\ view' = "FLASHCARDS"
    /\ sessionReviewsCompleted' = 0
    /\ isAnimating' = FALSE
    /\ currentCard' = FlashcardsCard(srsState, 0, now)
    /\ UNCHANGED << now, vocab, srsState, student, loading, localStorage,
                    gradeRating, masteryXP, dueItems,
                    masteryLog, readingPaid, timers, callVars, pc >>

\* the callback of setTimeout closes over the card and the rating of the
\* click and over onUpdateSRS = handleSRSUpdate of the render the click saw,
\* which closes over that render's srsState and vocab; mounted tells whether
\* the Flashcards instance that set the timeout is still mounted
Timeout(card, rating, srs, words) ==
    [ card |-> card, rating |-> rating, srs |-> srs, words |-> words,
      mounted |-> TRUE ]

\* a grade button is clicked: the update is delayed by the 300 ms timeout
HandleGrade(rating) ==
    /\ view = "FLASHCARDS"
    /\ currentCard # NoCard
    /\ ~isAnimating
    /\ isAnimating' = TRUE
    /\ gradeRating' = rating
    /\ timers' = Append(timers, Timeout(currentCard, rating, srsState, vocab))
    /\ UNCHANGED << now, vocab, srsState, student, loading, localStorage, view,
                    currentCard, sessionReviewsCompleted, masteryXP, dueItems,
                    masteryLog, readingPaid, callVars, pc >>

\* a faulty variant: the handler waits for the write and restores the state
MemoryAfterWriteRolledBack(before, after, written) ==
    IF written THEN after ELSE before

\* the state the handler leaves in memory when the write it started is done:
\* dbService's methods are async functions whose promise is dropped, so a
\* setItem that throws rejects the promise and the handler runs on
MemoryAfterWrite(before, after, written) == after

\* the oldest timeout fires: calculateReview, then onUpdateSRS =
\* handleSRSUpdate, both on the values of the closure; the profile is updated
\* by a function of the latest profile.  setSessionReviewsCompleted and
\* setIsAnimating do nothing once the instance is unmounted; the effect of
\* the mounted instance picks the card again when srsState changes.
\* itemWritten, profileWritten: whether setItem of updateSRSItem and of
\* updateProfile stored the value or threw.
CommitGradeWriting(itemWritten, profileWritten) ==
    /\ timers # << >>
    /\ LET timer       == Head(timers)
           updatedItem == calculateReview(timer.card, timer.rating, now)
           updatedSRS  == ReplaceItem(timer.srs, updatedItem)
           mastery     == ReviewMasteryXP(timer.srs, timer.words, updatedItem)
           completed   == IF timer.mounted THEN sessionReviewsCompleted + 1
                                           ELSE sessionReviewsCompleted
           itemStore   == IF itemWritten THEN updateSRSItem(localStorage, updatedItem)
                                         ELSE localStorage
       IN  /\ srsState' = MemoryAfterWrite(srsState, updatedSRS, itemWritten)
           /\ masteryXP' = mastery
           /\ student' = MemoryAfterWrite(
                              student,
                              ReviewedProfile(student, timer.words, updatedSRS, mastery, now),
                              profileWritten)
           /\ localStorage' = IF profileWritten THEN updateProfile(itemStore, student')
                                                ELSE itemStore
           /\ sessionReviewsCompleted' = completed
           /\ currentCard' = IF view = "FLASHCARDS"
                              THEN FlashcardsCard(srsState', completed, now)
                              ELSE currentCard
           /\ masteryLog' = IF mastery > 0 THEN Append(masteryLog, updatedItem.id)
                                          ELSE masteryLog
           /\ isAnimating' = IF timer.mounted THEN FALSE ELSE isAnimating
    /\ timers' = Tail(timers)
    /\ UNCHANGED << now, vocab, loading, view, gradeRating, dueItems, readingPaid,
                    callVars, pc >>

\* the timeout fires and both writes are stored
CommitGrade == CommitGradeWriting(TRUE, TRUE)

\* the back button of the card view is clicked while the timeout is pending:
\* the Flashcards instance is unmounted, its timeout is not cleared
LeaveDuringAnimation ==
    /\ view = "FLASHCARDS"
    /\ isAnimating
    /\ view' = "DASHBOARD"
    /\ currentCard' = NoCard
    /\ sessionReviewsCompleted' = 0
    /\ isAnimating' = FALSE
    /\ timers' = [ i \in 1..Len(timers) |-> [ timers[i] EXCEPT !.mounted = FALSE ] ]
    /\ UNCHANGED << now, vocab, srsState, student, loading, localStorage,
                    gradeRating, masteryXP, dueItems, masteryLog, readingPaid,
                    callVars, pc >>

----------------------------------------------------------------------------
(* App.tsx: navigation, reading and speaking completions, import *)

RECURSIVE SumReviews(_)
SumReviews(srs) ==
    IF srs = << >> THEN 0 ELSE Head(srs).reviews + SumReviews(Tail(srs))

\* Flashcards onComplete / onStartReading (offered when no card is shown)
LeaveFlashcards(target) ==
    /\ view = "FLASHCARDS"
    /\ ~isAnimating
    /\ target = "READING" => currentCard = NoCard
    /\ view' = target
    /\ currentCard' = NoCard
    /\ sessionReviewsCompleted' = 0
    /\ UNCHANGED << now, vocab, srsState, student, loading, localStorage,
                    isAnimating, gradeRating, masteryXP, dueItems,
                    masteryLog, readingPaid, timers, callVars, pc >>

OpenView(target) ==
    /\ ~loading
    /\ view = "DASHBOARD"
    /\ view' = target
    /\ UNCHANGED << now, vocab, srsState, student, loading, localStorage,
                    currentCard, isAnimating, gradeRating, sessionReviewsCompleted,
                    masteryXP, dueItems,
                    masteryLog, readingPaid, timers, callVars, pc >>

BackToDashboard ==
    /\ view \in { "READING", "SPEAKING", "IMPORT" }
    /\ view' = "DASHBOARD"
    /\ UNCHANGED << now, vocab, srsState, student, loading, localStorage,
                    currentCard, isAnimating, gradeRating, sessionReviewsCompleted,
                    masteryXP, dueItems,
                    masteryLog, readingPaid, timers, callVars, pc >>

NoReadingPaid == [day |-> 0, n |-> 0]

\* the history after handleTaskCompletion(prev, "reading"): the reading XP is
\* part of xpGain unless the reading flag is already set
ReadingPaidAfter(paid, prev, t) ==
    IF CurrentFlags(prev, t).reading THEN paid
    ELSE [day |-> LocalDay(t),
          n |-> IF paid.day = LocalDay(t) THEN paid.n + 1 ELSE 1]

\* ReadingGenerator onTaskComplete: the quiz is finished; written: whether
\* setItem of updateProfile stored the value or threw
ReadingTaskCompleteWriting(written) ==
    /\ view = "READING"
    /\ student.xp < MaxXP
    /\ student' = MemoryAfterWrite(
                      student, handleTaskCompletion(student, "reading", 0, now), written)
    /\ localStorage' = IF written THEN updateProfile(localStorage, student')
                                  ELSE localStorage
    /\ readingPaid' = ReadingPaidAfter(readingPaid, student, now)
    /\ UNCHANGED << now, vocab, srsState, loading, view, currentCard, isAnimating,
                    gradeRating, sessionReviewsCompleted, masteryXP, dueItems,
                    masteryLog, timers, callVars, pc >>

ReadingTaskComplete == ReadingTaskCompleteWriting(TRUE)

\* ReadingGenerator onStartSpeaking
StartSpeaking ==
    /\ view = "READING"
    /\ student.xp < MaxXP
    /\ student' = handleTaskCompletion(student, "reading", 0, now)
    /\ localStorage' = updateProfile(localStorage, student')
    /\ readingPaid' = ReadingPaidAfter(readingPaid, student, now)
    /\ view' = "SPEAKING"
    /\ UNCHANGED << now, vocab, srsState, loading, currentCard, isAnimating,
                    gradeRating, sessionReviewsCompleted, masteryXP, dueItems,
                    masteryLog, timers, callVars, pc >>

\* the accuracy scores a speaking session reports, in tenths; 0 when there is
\* no feedback
Scores == { 0, 404, 1000 }

\* SpeakingPractice onTaskComplete: speaking, then reading
SpeakingTaskComplete(score) ==
    /\ view = "SPEAKING"
    /\ student.xp < MaxXP
    /\ student' = handleTaskCompletion(
                      handleTaskCompletion(student, "speaking", score, now),
                      "reading", 0, now)
    /\ localStorage' = updateProfile(localStorage, student')
    /\ readingPaid' = ReadingPaidAfter(
                          readingPaid,
                          handleTaskCompletion(student, "speaking", score, now), now)
    /\ UNCHANGED << now, vocab, srsState, loading, view, currentCard, isAnimating,
                    gradeRating, sessionReviewsCompleted, masteryXP, dueItems,
                    masteryLog, timers, callVars, pc >>

ImportLevels == { 1 }

\* the words of an import: fresh ids (crypto.randomUUID), one level
NewWords(words, n, level) ==
    [ i \in 1..n |-> Word(100 + Len(words) + i, level) ]

\* handleImportWords: importWords, then the collections are fetched again;
\* limit bounds the size of the vocabulary
ImportWordsUpTo(n, level, limit) ==
    /\ view = "IMPORT"
    /\ Len(vocab) + n <= limit
    /\ localStorage' = importWords(localStorage, NewWords(vocab, n, level), now)
    /\ vocab' = localStorage'.vocab
    /\ srsState' = localStorage'.srs
    /\ UNCHANGED << now, student, loading, view, currentCard, isAnimating,
                    gradeRating, sessionReviewsCompleted, masteryXP, dueItems,
                    masteryLog, readingPaid, timers, callVars, pc >>

ImportWords(n, level) == ImportWordsUpTo(n, level, MaxVocab)

----------------------------------------------------------------------------
(* the clock *)

\* Time passes between the learner's actions.  The reading, speaking and import
\* views hold no state of their own here, so a pause there is the same as a
\* pause on the dashboard; the 300 ms timeout fires before a clock step.
ClockMayAdvance ==
    /\ ~loading
    /\ ~isAnimating
    /\ timers = << >>
    /\ view \in { "DASHBOARD", "FLASHCARDS" }

AdvanceMinute ==
    /\ ClockMayAdvance
    /\ now.ms + RelearnMs <= MaxMinutes * RelearnMs
    /\ now' = TimePlusMs(now, RelearnMs)
    /\ UNCHANGED << vocab, srsState, student, loading, localStorage, view,
                    currentCard, isAnimating, gradeRating, sessionReviewsCompleted,
                    masteryXP, dueItems,
                    masteryLog, readingPaid, timers, callVars, pc >>

AdvanceDays(k) ==
    /\ ClockMayAdvance
    /\ now.d + k <= StartDay + MaxDays
    /\ now' = [ now EXCEPT !.d = now.d + k ]
    /\ UNCHANGED << vocab, srsState, student, loading, localStorage, view,
                    currentCard, isAnimating, gradeRating, sessionReviewsCompleted,
                    masteryXP, dueItems,
                    masteryLog, readingPaid, timers, callVars, pc >>

----------------------------------------------------------------------------
(* The App *)

\* the bound on the gradings of a run, and on the intervals "Hard" can represent
CanGrade(rating, limit) ==
    /\ currentCard # NoCard
    /\ SumReviews(srsState) < limit
    /\ rating = 1 => HardRepresentable(currentCard.interval)

Init ==
    /\ now = [ d |-> StartDay, ms |-> 0 ]
    /\ vocab = << >>
    /\ srsState = << >>
    /\ student = INITIAL_STUDENT_PROFILE(now)
    /\ loading = TRUE
    /\ localStorage = EmptyStorage
    /\ view = "DASHBOARD"
    /\ currentCard = NoCard
    /\ isAnimating = FALSE
    /\ gradeRating = 0
    /\ sessionReviewsCompleted = 0
    /\ masteryXP = 0
    /\ dueItems = [ newCardLimit |-> -1, result |-> << >> ]
    /\ masteryLog = << >>
    /\ readingPaid = NoReadingPaid
    /\ timers = << >>
    /\ feedback = NoFeedback
    /\ xpRank = NoRank
    /\ levelStats = NoStats
    /\ pc = "app"

Next ==
    \/ LoadData
    \/ Reload
    \/ OpenFlashcards
    \/ \E rating \in Ratings : CanGrade(rating, MaxGradings) /\ HandleGrade(rating)
    \/ CommitGrade
    \/ \E target \in { "DASHBOARD", "READING" } : LeaveFlashcards(target)
    \/ \E target \in { "READING", "SPEAKING", "IMPORT" } : OpenView(target)
    \/ BackToDashboard
    \/ ReadingTaskComplete
    \/ StartSpeaking
    \/ \E score \in Scores : SpeakingTaskComplete(score)
    \/ \E n \in 1..2, level \in ImportLevels : ImportWords(n, level)
    \/ AdvanceMinute
    \/ \E k \in 1..2 : AdvanceDays(k)

Spec == Init /\ [][Next]_vars

----------------------------------------------------------------------------
(* The scheduler harness: calculateReview applied again and again to one    *)
(* review state, drawn from its domain.  srsState holds the state before    *)
(* the last call, currentCard the state it returned.                        *)

ReviewEases == { 130, 135, 140, 150, 250, 265 }
ReviewIntervals == { 0, 1, 2, 6, 15, 18, 21, 25 }
ReviewLapses == { 0, 2 }
ReviewClocks == { [ d |-> StartDay, ms |-> 0 ], [ d |-> StartDay, ms |-> OneDayMs - 1 ] }

ReviewInputs ==
    { [ id |-> 6, easeFactor |-> e, interval |-> Days(i), dueDate |-> Epoch,
        reviews |-> 0, lapses |-> l, lastReview |-> Epoch ] :
      e \in ReviewEases, i \in ReviewIntervals, l \in ReviewLapses }

ReviewInit ==
    /\ now \in ReviewClocks
    /\ currentCard \in ReviewInputs
    /\ srsState = << currentCard >>
    /\ vocab = INITIAL_VOCABULARY
    /\ student = INITIAL_STUDENT_PROFILE(now)
    /\ loading = FALSE
    /\ localStorage = EmptyStorage
    /\ view = "FLASHCARDS"
    /\ isAnimating = FALSE
    /\ gradeRating = 0
    /\ sessionReviewsCompleted = 0
    /\ masteryXP = 0
    /\ dueItems = [ newCardLimit |-> -1, result |-> << >> ]
    /\ masteryLog = << >>
    /\ readingPaid = NoReadingPaid
    /\ timers = << >>
    /\ feedback = NoFeedback
    /\ xpRank = NoRank
    /\ levelStats = NoStats
    /\ pc = "ready"

ReviewCall(rating) ==
    /\ pc \in { "ready", "done" }
    /\ currentCard.reviews < MaxReviews
    /\ rating = 1 => HardRepresentable(currentCard.interval)
    /\ srsState' = << currentCard >>
    /\ currentCard' = calculateReview(currentCard, rating, now)
    /\ gradeRating' = rating
    /\ masteryXP' = ReviewMasteryXP(srsState', vocab, currentCard')
    /\ pc' = "done"
    /\ UNCHANGED << now, vocab, student, loading, localStorage, view, isAnimating,
                    sessionReviewsCompleted, dueItems, masteryLog, readingPaid, timers, callVars >>

ReviewNext == \E rating \in Ratings : ReviewCall(rating)

SpecReview == ReviewInit /\ [][ReviewNext]_vars

\* the review state passed to the last call, and the one it returned
Before == srsState[1]
After == currentCard
Graded(rating) == pc = "done" /\ gradeRating = rating

----------------------------------------------------------------------------
(* Claims about calculateReview, checked under SpecReview *)

\* C1: every review state, given to calculateReview with an ease of at least
\* 1.3, comes back with an ease of at least 1.3, whatever the rating; so does
\* every state reached by a sequence of gradings from the imported item.
C1_EaseAtLeastFloor ==
    /\ \A i \in 1..Len(srsState) : srsState[i].easeFactor >= 130
    /\ currentCard.easeFactor >= 130

\* C1 witness: a grading that lowers the ease arrives at the floor
C1_Witness ==
    /\ pc = "done"
    /\ gradeRating \in { 0, 1 }
    /\ Before.easeFactor = 135
    /\ After.easeFactor = 130

\* n = Math.round(p / q)
IsRounded(n, p, q) == (2 * n - 1) * q <= 2 * p /\ 2 * p < (2 * n + 1) * q

FourGoods == << 1, 6, 15, 38 >>

\* C2: "Good" maps interval 0 to 1, 1 to 6 and any other interval to
\* round(interval * ease), and leaves the ease alone; the k-th "Good" in a row
\* on the fresh item (interval 0, ease 2.5, no reviews) yields 1, 6, 15, 38.
C2_GoodInterval ==
    Graded(2) =>
        /\ After.easeFactor = Before.easeFactor
        /\ After.interval % IntervalScale = 0
        /\ IF Before.interval = 0 THEN After.interval = 1 * IntervalScale
           ELSE IF Before.interval = 1 * IntervalScale
                THEN After.interval = 6 * IntervalScale
                ELSE IsRounded(After.interval \div IntervalScale,
                               Before.interval * Before.easeFactor,
                               IntervalScale * 100)
        /\ \A k \in 1..4 :
              ( /\ Before.reviews = k - 1
                /\ Before.easeFactor = 250
                /\ Before.interval =
                     (IF k = 1 THEN 0 ELSE FourGoods[k - 1] * IntervalScale) )
              => ( /\ After.reviews = k
                   /\ After.interval = FourGoods[k] * IntervalScale
                   /\ After.easeFactor = 250 )

\* C2 witness: the fourth "Good" in a row: 15 days become 38
C2_Witness ==
    /\ Graded(2)
    /\ Before.reviews = 3 /\ Before.interval = 15 * IntervalScale
    /\ Before.easeFactor = 250 /\ Before.lapses = 0
    /\ After.reviews = 4 /\ After.interval = 38 * IntervalScale

\* C3: "Again" sets the interval to 0, adds one lapse, lowers the ease by 0.2
\* down to 1.3 at least, and makes the item due exactly one minute from now.
C3_Again ==
    Graded(0) =>
        /\ After.interval = 0
        /\ After.lapses = Before.lapses + 1
        /\ After.easeFactor =
             (IF Before.easeFactor - 20 >= 130 THEN Before.easeFactor - 20 ELSE 130)
        /\ After.dueDate =
             (IF now.ms + 60000 < 86400000
              THEN [ d |-> now.d, ms |-> now.ms + 60000 ]
              ELSE [ d |-> now.d + 1, ms |-> now.ms + 60000 - 86400000 ])
        /\ TimeLess(now, After.dueDate)

\* C3 witness: a long interval is forgotten just before midnight
C3_Witness ==
    /\ Graded(0)
    /\ Before.interval = 25 * IntervalScale
    /\ Before.easeFactor = 135
    /\ now.ms = OneDayMs - 1
    /\ After.dueDate.d = now.d + 1

----------------------------------------------------------------------------
(* The selector harness: getDueItems applied to collections drawn from the  *)
(* review states a collection can hold: a never-reviewed item has no lapse. *)

\* << reviews, lapses >>
DueShapes == { << 0, 0 >>, << 1, 0 >>, << 3, 2 >> }

DueClock == [ d |-> StartDay, ms |-> 0 ]

\* due since yesterday, due exactly now, due one millisecond from now
DueDates == { [ d |-> StartDay - 1, ms |-> 0 ], DueClock, [ d |-> StartDay, ms |-> 1 ] }

DueLimits == { -1, 0, 1, 2, DAILY_NEW_CARD_LIMIT }

DueItem(id, shape, due) ==
    [ id |-> id, easeFactor |-> InitialEase,
      interval |-> IF shape[1] = 0 THEN 0 ELSE Days(1),
      dueDate |-> due, reviews |-> shape[1], lapses |-> shape[2],
      lastReview |-> Epoch ]

DueCollections ==
    UNION { { [ i \in 1..n |-> DueItem(i, f[i][1], f[i][2]) ] :
              f \in [ 1..n -> DueShapes \X DueDates ] } : n \in 0..MaxDueItems }

DueInit ==
    /\ now = DueClock
    /\ srsState \in DueCollections
    /\ vocab = << >>
    /\ student = INITIAL_STUDENT_PROFILE(now)
    /\ loading = FALSE
    /\ localStorage = EmptyStorage
    /\ view = "DASHBOARD"
    /\ currentCard = NoCard
    /\ isAnimating = FALSE
    /\ gradeRating = 0
    /\ sessionReviewsCompleted = 0
    /\ masteryXP = 0
    /\ dueItems = [ newCardLimit |-> -1, result |-> << >> ]
    /\ masteryLog = << >>
    /\ readingPaid = NoReadingPaid
    /\ timers = << >>
    /\ feedback = NoFeedback
    /\ xpRank = NoRank
    /\ levelStats = NoStats
    /\ pc = "ready"

DueCall(limit) ==
    /\ pc \in { "ready", "done" }
    /\ dueItems' = [ newCardLimit |-> limit, result |-> getDueItems(srsState, limit, now) ]
    /\ srsState' = ItemsAfterDue(srsState, limit, now)
    /\ pc' = "done"
    /\ UNCHANGED << now, vocab, student, loading, localStorage, view,
                    currentCard, isAnimating, gradeRating, sessionReviewsCompleted,
                    masteryXP, masteryLog, readingPaid, timers, callVars >>

DueNext == \E limit \in DueLimits : DueCall(limit)

SpecDue == DueInit /\ [][DueNext]_vars

Selected == dueItems.result

----------------------------------------------------------------------------
(* Claims about getDueItems, checked under SpecDue *)

\* C4: in the selector's output, for any limit, an item with more lapses
\* stands before every item with fewer lapses, whatever their due dates.
C4_LapsesFirst ==
    pc = "done" =>
        \A i, j \in 1..Len(Selected) :
            Selected[i].lapses > Selected[j].lapses => i < j

\* C4 witness: under a limit, an item with more lapses and a later due date
\* stands before an item with fewer lapses and an earlier due date
C4_Witness ==
    /\ pc = "done"
    /\ dueItems.newCardLimit = 1
    /\ \E i, j \in 1..Len(Selected) :
          /\ i < j
          /\ Selected[i].lapses > Selected[j].lapses
          /\ TimeLess(Selected[j].dueDate, Selected[i].dueDate)
          /\ Selected[j].reviews = 0

\* C5: with a limit N >= 0 the output holds at most N never-reviewed items and
\* every due item that was reviewed before.
C5_CapOnNewOnly ==
    (pc = "done" /\ dueItems.newCardLimit >= 0) =>
        /\ Cardinality({ i \in 1..Len(Selected) : Selected[i].reviews = 0 })
             <= dueItems.newCardLimit
        /\ \A k \in 1..Len(srsState) :
              (TimeLeq(srsState[k].dueDate, now) /\ srsState[k].reviews > 0)
              => \E i \in 1..Len(Selected) : Selected[i] = srsState[k]

\* C5 witness: two never-reviewed items and one reviewed item are due, the
\* limit is 1: two items are selected
C5_Witness ==
    /\ pc = "done"
    /\ dueItems.newCardLimit = 1
    /\ Cardinality({ k \in 1..Len(srsState) :
                       TimeLeq(srsState[k].dueDate, now) /\ srsState[k].reviews = 0 }) >= 2
    /\ Cardinality({ k \in 1..Len(srsState) :
                       TimeLeq(srsState[k].dueDate, now) /\ srsState[k].reviews > 0 }) = 1
    /\ Len(Selected) = 2

----------------------------------------------------------------------------
(* The level harness: calculateEffectiveHSKLevel applied to collections     *)
(* that hold, for each level 1..5, a given number of mastered words (an     *)
(* interval of 22 days) and one word one day short of mastery (21 days).    *)

\* << mastered words of level 1, ..., of level 5 >>
LevelInputs ==
    ( { 0, 119, 120, 135 } \X { 0, 118, 119, 120 } \X { 0, 238, 239, 240 }
        \X { 0 } \X { 0 } )
    \cup { << 120, 120, 239, 477, 1034 >>, << 120, 120, 240, 480, 1040 >> }

RECURSIVE LevelOffset(_, _)
\* the number of words of the levels below level
LevelOffset(m, level) ==
    IF level = 1 THEN 0 ELSE LevelOffset(m, level - 1) + m[level - 1] + 1

LevelOfIndex(m, i) ==
    CHOOSE l \in 1..5 : LevelOffset(m, l) < i /\ i <= LevelOffset(m, l + 1)

LevelVocab(m) ==
    [ i \in 1..LevelOffset(m, 6) |-> Word(i, LevelOfIndex(m, i)) ]

LevelSRS(m) ==
    [ i \in 1..LevelOffset(m, 6) |->
        [ id |-> i, easeFactor |-> InitialEase,
          interval |-> IF i = LevelOffset(m, LevelOfIndex(m, i) + 1)
                       THEN Days(21) ELSE Days(22),
          dueDate |-> [ d |-> StartDay + 21, ms |-> 0 ],
          reviews |-> 4, lapses |-> 0,
          lastReview |-> [ d |-> StartDay, ms |-> 0 ] ] ]

LevelInit ==
    /\ now = [ d |-> StartDay, ms |-> 0 ]
    /\ \E m \in LevelInputs :
          /\ vocab = LevelVocab(m)
          /\ srsState = LevelSRS(m)
    /\ student = INITIAL_STUDENT_PROFILE(now)
    /\ loading = FALSE
    /\ localStorage = EmptyStorage
    /\ view = "DASHBOARD"
    /\ currentCard = NoCard
    /\ isAnimating = FALSE
    /\ gradeRating = 0
    /\ sessionReviewsCompleted = 0
    /\ masteryXP = 0
    /\ dueItems = [ newCardLimit |-> -1, result |-> << >> ]
    /\ masteryLog = << >>
    /\ readingPaid = NoReadingPaid
    /\ timers = << >>
    /\ feedback = NoFeedback
    /\ xpRank = NoRank
    /\ levelStats = NoStats
    /\ pc = "ready"

LevelCall ==
    /\ pc = "ready"
    /\ student' = [ student EXCEPT !.hskLevel = calculateEffectiveHSKLevel(vocab, srsState) ]
    /\ pc' = "done"
    /\ UNCHANGED << now, vocab, srsState, loading, localStorage, view, currentCard,
                    isAnimating, gradeRating, sessionReviewsCompleted, masteryXP,
                    dueItems, masteryLog, readingPaid, timers, callVars >>

LevelNext == LevelCall

SpecLevel == LevelInit /\ [][LevelNext]_vars

----------------------------------------------------------------------------
(* Claims about calculateEffectiveHSKLevel, checked under SpecLevel *)

\* the words of a level whose review state has an interval above 21 days
TrulyMastered(level) ==
    Cardinality({ i \in 1..Len(vocab) :
        /\ vocab[i].level = level
        /\ \E j \in 1..Len(srsState) :
              srsState[j].id = vocab[i].id /\ srsState[j].interval > 21 * IntervalScale })

RequiredCounts == << 150, 150, 300, 600, 1300 >>

\* coverage masteredCount / requiredCount strictly below 80%
CoverageBelow80(level) == TrulyMastered(level) * 100 < 80 * RequiredCounts[level]

\* C6: the effective level is the smallest level of 1..5 whose coverage is
\* strictly below 80%, and 6 when there is none.
C6_SmallestLevelBelow80 ==
    pc = "done" =>
        LET below == { l \in 1..5 : CoverageBelow80(l) }
        IN  IF below = {} THEN student.hskLevel = 6
            ELSE /\ student.hskLevel \in below
                 /\ \A l \in below : student.hskLevel <= l

----------------------------------------------------------------------------
(* The bonus harness: checkMasteryBonus applied, as handleSRSUpdate applies *)
(* it, to the stored interval of an item and the interval of its update.    *)
(* The vocabulary holds one word of each level 1..7 (the word's id is its   *)
(* level; the importer accepts levels outside 1..6) and no word of id 8.    *)

BonusVocab == [ i \in 1..7 |-> Word(i, i) ]
BonusIds == 1..8
BonusIntervals ==
    { 0, Days(1), Days(20), Days(21), Days(21) + 1, Days(22), Days(25), Days(60) }

BonusItem(id, interval) ==
    [ id |-> id, easeFactor |-> InitialEase, interval |-> interval, dueDate |-> Epoch,
      reviews |-> 1, lapses |-> 0, lastReview |-> Epoch ]

BonusInit ==
    /\ now = [ d |-> StartDay, ms |-> 0 ]
    /\ vocab = BonusVocab
    /\ \E id \in BonusIds, old \in BonusIntervals, new \in BonusIntervals :
          /\ srsState = << BonusItem(id, old) >>
          /\ currentCard = BonusItem(id, new)
    /\ student = INITIAL_STUDENT_PROFILE(now)
    /\ loading = FALSE
    /\ localStorage = EmptyStorage
    /\ view = "FLASHCARDS"
    /\ isAnimating = FALSE
    /\ gradeRating = 0
    /\ sessionReviewsCompleted = 0
    /\ masteryXP = 0
    /\ dueItems = [ newCardLimit |-> -1, result |-> << >> ]
    /\ masteryLog = << >>
    /\ readingPaid = NoReadingPaid
    /\ timers = << >>
    /\ feedback = NoFeedback
    /\ xpRank = NoRank
    /\ levelStats = NoStats
    /\ pc = "ready"

BonusCall ==
    /\ pc = "ready"
    /\ masteryXP' = ReviewMasteryXP(srsState, vocab, currentCard)
    /\ pc' = "done"
    /\ UNCHANGED << now, vocab, srsState, student, loading, localStorage, view,
                    currentCard, isAnimating, gradeRating, sessionReviewsCompleted,
                    dueItems, masteryLog, readingPaid, timers, callVars >>

BonusNext == BonusCall

SpecBonus == BonusInit /\ [][BonusNext]_vars

----------------------------------------------------------------------------
(* Claims about checkMasteryBonus, checked under SpecBonus *)

BonusOld == srsState[1].interval
BonusNew == currentCard.interval
BonusWordPresent == \E i \in 1..Len(vocab) : vocab[i].id = currentCard.id
BonusLevel == vocab[CHOOSE i \in 1..Len(vocab) : vocab[i].id = currentCard.id].level
Crosses21 == BonusOld <= 21 * IntervalScale /\ 21 * IntervalScale < BonusNew
LevelRewards == << 10, 20, 40, 80, 160, 320 >>

\* C7: checkMasteryBonus is positive exactly when oldInterval <= 21 < newInterval
\* and the item is in the vocabulary, and 0 otherwise; the positive value is
\* the reward of the item's level, 10, 20, 40, 80, 160, 320 for levels 1..6,
\* strictly increasing with the level.
C7_BonusOnCrossing ==
    pc = "done" =>
        /\ masteryXP >= 0
        /\ masteryXP > 0 <=> (Crosses21 /\ BonusWordPresent)
        /\ (masteryXP > 0 /\ BonusLevel \in 1..6) => masteryXP = LevelRewards[BonusLevel]
        /\ \A l \in 1..5 : MasteryReward(l) < MasteryReward(l + 1)

\* a level-4 word goes from exactly 21 days to just above 21 and earns 80
C7_Witness ==
    /\ pc = "done"
    /\ BonusOld = 21 * IntervalScale
    /\ BonusNew = 21 * IntervalScale + 1
    /\ BonusWordPresent
    /\ BonusLevel = 4
    /\ masteryXP = 80

----------------------------------------------------------------------------
(* Long-run reviewing: the App from its initial state, the learner grading  *)
(* "Again" or "Easy" in flashcard sessions and returning to the dashboard,  *)
(* where time passes until the next card falls due.                         *)

MaxMasteryGradings == 8
MaxMasteryDays == 90

MasteryRatings == { 0, 3 }

FutureDueDates == { srsState[i].dueDate : i \in { j \in 1..Len(srsState) :
                                                    TimeLess(now, srsState[j].dueDate) } }

\* the clock reaches the next due date of the collection
AdvanceToDue ==
    /\ ~loading
    /\ view = "DASHBOARD"
    /\ FutureDueDates # {}
    /\ LET next == CHOOSE t \in FutureDueDates : \A u \in FutureDueDates : TimeLeq(t, u)
       IN  /\ next.d <= StartDay + MaxMasteryDays
           /\ now' = next
    /\ UNCHANGED << vocab, srsState, student, loading, localStorage, view,
                    currentCard, isAnimating, gradeRating, sessionReviewsCompleted,
                    masteryXP, dueItems, masteryLog, readingPaid, timers, callVars, pc >>

MasteryNext ==
    \/ LoadData
    \/ OpenFlashcards
    \/ \E rating \in MasteryRatings :
          CanGrade(rating, MaxMasteryGradings) /\ HandleGrade(rating)
    \/ CommitGrade
    \/ LeaveFlashcards("DASHBOARD")
    \/ AdvanceToDue

SpecMastery == Init /\ [][MasteryNext]_vars

----------------------------------------------------------------------------
(* Claims about the mastery bonus over a run, checked under SpecMastery *)

\* C8: over any sequence of graded reviews the mastery bonus is added to the
\* learner's xp at most once for a given item: no item is paid a second time.
C8_BonusOncePerItem ==
    \A i, j \in 1..Len(masteryLog) : i # j => masteryLog[i] # masteryLog[j]

----------------------------------------------------------------------------
(* The learner's days: the App without the import view, the clock moving   *)
(* by whole days while the learner is away.                                 *)

DailyNext ==
    \/ LoadData
    \/ Reload
    \/ OpenFlashcards
    \/ \E rating \in Ratings : CanGrade(rating, MaxGradings) /\ HandleGrade(rating)
    \/ CommitGrade
    \/ \E target \in { "DASHBOARD", "READING" } : LeaveFlashcards(target)
    \/ \E target \in { "READING", "SPEAKING" } : OpenView(target)
    \/ BackToDashboard
    \/ ReadingTaskComplete
    \/ StartSpeaking
    \/ \E score \in Scores : SpeakingTaskComplete(score)
    \/ \E k \in 1..2 : AdvanceDays(k)

SpecDaily == Init /\ [][DailyNext]_vars

----------------------------------------------------------------------------
(* Claims about the streak, checked under SpecDaily *)

\* a step of handleSRSUpdate or handleTaskCompletion, the first one on a
\* local day later than the day of the last study date
FirstActionOfNewDay ==
    /\ ~loading
    /\ ~loading'
    /\ LocalDay(student.lastStudyDate) < LocalDay(now)
    /\ student'.lastStudyDate = now

\* C9: the first qualifying action of a new calendar day makes streakDays its
\* old value + 1 when the previous activity was on the day before, and
\* exactly 1 when more than one calendar day has gone by.
C9_StreakOnNewDay ==
    [][ FirstActionOfNewDay =>
            student'.streakDays =
                IF LocalDay(now) - LocalDay(student.lastStudyDate) = 1
                THEN student.streakDays + 1
                ELSE 1 ]_vars

\* C10: within one calendar day streakDays is incremented at most once: once
\* the last study date is today, no graded review and no reading or speaking
\* completion changes streakDays, and loading the stored profile never
\* raises it.
C10_OncePerDay ==
    [][ /\ ( ~loading /\ ~loading' /\ LocalDay(student.lastStudyDate) = LocalDay(now) )
            => student'.streakDays = student.streakDays
        /\ ( loading /\ ~loading' /\ localStorage.hasProfile )
            => student'.streakDays <= localStorage.profile.streakDays ]_vars

\* the day after the start: the profile was loaded that day, the streak went
\* from 0 to 1 on the day's first action, and a graded review and a reading
\* completion have both been done since the load
C10_Witness ==
    /\ ~loading
    /\ LocalDay(now) = StartDay + 1
    /\ LocalDay(student.lastStudyDate) = LocalDay(now)
    /\ LocalDay(student.dailyProgress.date) = LocalDay(now)
    /\ student.dailyProgress.reviewsDoneToday = 1
    /\ student.dailyProgress.reading
    /\ student.streakDays = 1

\* a step of handleSRSUpdate or handleTaskCompletion that changes the profile
ProfileAction ==
    /\ ~loading
    /\ ~loading'
    /\ student' # student

\* C11: the first qualifying action of a new calendar day adds the streak
\* bonus of 100 XP to xp, whichever action it is and whatever the daily flags
\* hold; streakDays never changes without xp rising by at least the bonus.
C11_StreakBonusPaid ==
    [][ /\ FirstActionOfNewDay => student'.xp >= student.xp + 100
        /\ ( ProfileAction /\ student'.streakDays # student.streakDays )
              => student'.xp >= student.xp + 100 ]_vars

\* C12: after every graded review and every task completion the anchor day
\* of dailyProgress is today: an action applied on a later day than the anchor
\* starts from zeroed flags and a zeroed review count.
C12_AnchorIsToday ==
    [][ ProfileAction =>
          /\ LocalDay(student'.dailyProgress.date) = LocalDay(now)
          /\ LocalDay(student.dailyProgress.date) # LocalDay(now)
                => student'.dailyProgress.reviewsDoneToday <= 1 ]_vars

\* C13: within one calendar day the reading completion XP is added to xp at
\* most once, however many reading completions are raised.
C13_ReadingPaidOncePerDay == readingPaid.n <= 1

----------------------------------------------------------------------------
(* The learner's days with the import view: the App with the clock moving  *)
(* by whole days.                                                           *)

ImportingNext ==
    \/ DailyNext
    \/ OpenView("IMPORT")
    \/ \E n \in 1..2, level \in ImportLevels : ImportWords(n, level)

SpecImporting == Init /\ [][ImportingNext]_vars

\* C14: xp is a non-negative integer that never decreases: not from one
\* profile shown to the next, not from one stored profile to the next, and
\* not when the stored profile is loaded.
C14_XpNeverDecreases ==
    [][ /\ student'.xp \in Nat
        /\ ( ~loading /\ ~loading' ) => student'.xp >= student.xp
        /\ ( localStorage.hasProfile /\ localStorage'.hasProfile )
              => localStorage'.profile.xp >= localStorage.profile.xp
        /\ ( loading /\ ~loading' /\ localStorage.hasProfile )
              => student'.xp >= localStorage.profile.xp ]_vars

\* the reading XP was paid on the first day, a card was graded, a word was
\* imported and the profile was loaded again on the next day: xp is 151
C14_Witness ==
    /\ ~loading
    /\ student.xp = 151
    /\ readingPaid = [day |-> StartDay, n |-> 1]
    /\ Len(vocab) = 4
    /\ LocalDay(student.dailyProgress.date) = StartDay + 1

----------------------------------------------------------------------------
(* The scheduler harness with any number as the rating: handleGrade and     *)
(* calculateReview take a number and do not test it.                        *)

AnyRatings == Ratings \cup { -1, 4 }

AnyRatingNext == \E rating \in AnyRatings : ReviewCall(rating)

SpecAnyRating == ReviewInit /\ [][AnyRatingNext]_vars

\* C15: a rating outside 0..3 is rejected: the review state of the item stays
\* as it was (reviews, dueDate, lastReview, interval, easeFactor, lapses).
C15_InvalidRatingRejected ==
    ( pc = "done" /\ gradeRating \notin Ratings ) => After = Before

----------------------------------------------------------------------------
(* More claims about calculateReview, checked under SpecReview *)

\* C16: every grading adds exactly 1 to reviews and sets lastReview to now;
\* lapses grows by exactly 1 on "Again" and is unchanged by "Hard", "Good" and
\* "Easy"; so neither counter ever decreases.
C16_Counters ==
    pc = "done" =>
        /\ After.reviews = Before.reviews + 1
        /\ After.lastReview = now
        /\ gradeRating = 0 => After.lapses = Before.lapses + 1
        /\ gradeRating \in { 1, 2, 3 } => After.lapses = Before.lapses
        /\ After.lapses >= Before.lapses

\* the second grading of an item with two lapses is an "Again"
C16_Witness ==
    /\ Graded(0)
    /\ After.reviews = 2
    /\ After.lapses = 3
    /\ After.lastReview = now

\* milliseconds in one unit of the interval
UnitMs == 86400000 \div IntervalScale

\* C17: the due date returned by a grading is now + 60000 ms when the new
\* interval is 0 and now + interval * 86,400,000 ms otherwise; it is strictly
\* later than now.
C17_DueDateFromNow ==
    pc = "done" =>
        LET due == After.dueDate
        IN  /\ due.ms \in 0..(86400000 - 1)
            /\ IF After.interval = 0
               THEN (due.d - now.d) * 86400000 + (due.ms - now.ms) = 60000
               ELSE /\ (due.ms - now.ms) % UnitMs = 0
                    /\ (due.d - now.d) * IntervalScale + (due.ms - now.ms) \div UnitMs
                         = After.interval
            /\ TimeLess(now, due)

\* "Hard" at the last millisecond of a day: 2 days become 2.4, due on the
\* third day after
C17_Witness ==
    /\ Graded(1)
    /\ Before.interval = 2 * IntervalScale
    /\ After.interval * 5 = 12 * IntervalScale
    /\ now.ms = 86400000 - 1
    /\ After.dueDate.d = now.d + 3

\* C18: "Hard" yields interval max(1, interval * 1.2) and ease
\* max(1.3, ease - 0.15) and leaves lapses alone; the interval is never 0 and
\* an interval of at least 1 day is never shortened.
C18_Hard ==
    Graded(1) =>
        /\ After.interval * 5 =
             (IF Before.interval * 6 >= 5 * IntervalScale
              THEN Before.interval * 6 ELSE 5 * IntervalScale)
        /\ After.easeFactor =
             (IF Before.easeFactor - 15 >= 130 THEN Before.easeFactor - 15 ELSE 130)
        /\ After.lapses = Before.lapses
        /\ After.interval > 0
        /\ Before.interval >= IntervalScale => After.interval >= Before.interval

\* "Hard" on an item with interval 0 and ease 1.4
C18_Witness ==
    /\ Graded(1)
    /\ Before.interval = 0
    /\ Before.easeFactor = 140
    /\ After.interval = IntervalScale
    /\ After.easeFactor = 130

\* C19: "Easy" maps interval 0 to 4, 1 to 10 and any other interval to
\* round(interval * ease * 1.3), with the ease before the update, and then
\* adds exactly 0.15 to the ease, without an upper limit.
C19_Easy ==
    Graded(3) =>
        /\ After.easeFactor = Before.easeFactor + 15
        /\ After.interval % IntervalScale = 0
        /\ IF Before.interval = 0 THEN After.interval = 4 * IntervalScale
           ELSE IF Before.interval = 1 * IntervalScale
                THEN After.interval = 10 * IntervalScale
                ELSE LET q == IntervalScale * 1000
                         b == Before.easeFactor * 13
                         whole == (Before.interval \div q) * b
                     IN  IsRounded(After.interval \div IntervalScale - whole,
                                   (Before.interval % q) * b, q)

\* "Easy" on 15 days at ease 2.5: round(48.75) = 49 days, ease 2.65
C19_Witness ==
    /\ Graded(3)
    /\ Before.interval = 15 * IntervalScale
    /\ Before.easeFactor = 250
    /\ After.interval = 49 * IntervalScale
    /\ After.easeFactor = 265

----------------------------------------------------------------------------
(* The import harness: handleImportWords applied once to a stored           *)
(* collection, then getDueItems called at the instant of the import and     *)
(* some milliseconds later.  pc is "imported" until the clock moves.        *)

MaxImport == 3       \* words of a batch, and milliseconds the clock advances

\* the seeded collection as first stored, stored a day ago, or with its first
\* item reviewed three times and forgotten twice
ImportStores ==
    { INITIAL_SRS_STATE(DueClock),
      INITIAL_SRS_STATE([ d |-> StartDay - 1, ms |-> 0 ]),
      [ INITIAL_SRS_STATE(DueClock) EXCEPT ![1] = DueItem(6, << 3, 2 >>, DueClock) ] }

ImportInit ==
    /\ now = DueClock
    /\ vocab = INITIAL_VOCABULARY
    /\ srsState \in ImportStores
    /\ localStorage = [ EmptyStorage EXCEPT !.hasData = TRUE, !.vocab = vocab,
                                            !.srs = srsState ]
    /\ student = INITIAL_STUDENT_PROFILE(now)
    /\ loading = FALSE
    /\ view = "IMPORT"
    /\ currentCard = NoCard
    /\ isAnimating = FALSE
    /\ gradeRating = 0
    /\ sessionReviewsCompleted = 0
    /\ masteryXP = 0
    /\ dueItems = [ newCardLimit |-> -1, result |-> << >> ]
    /\ masteryLog = << >>
    /\ readingPaid = NoReadingPaid
    /\ timers = << >>
    /\ feedback = NoFeedback
    /\ xpRank = NoRank
    /\ levelStats = NoStats
    /\ pc = "ready"

\* handleImportWords, and the render that follows it in the same millisecond
ImportCall(n, level) ==
    /\ pc = "ready"
    /\ localStorage' = importWords(localStorage, NewWords(vocab, n, level), now)
    /\ vocab' = localStorage'.vocab
    /\ srsState' = localStorage'.srs
    /\ dueItems' = [ newCardLimit |-> -1, result |-> getDueItems(srsState', -1, now) ]
    /\ pc' = "imported"
    /\ UNCHANGED << now, student, loading, view, currentCard, isAnimating,
                    gradeRating, sessionReviewsCompleted, masteryXP, masteryLog,
                    readingPaid, timers, callVars >>

ImportTick ==
    /\ pc \in { "imported", "done" }
    /\ now.ms < DueClock.ms + MaxImport
    /\ now' = TimePlusMs(now, 1)
    /\ pc' = "done"
    /\ UNCHANGED << vocab, srsState, student, loading, localStorage, view,
                    currentCard, isAnimating, gradeRating, sessionReviewsCompleted,
                    masteryXP, dueItems, masteryLog, readingPaid, timers, callVars >>

ImportDue(limit) ==
    /\ pc = "done"
    /\ dueItems' = [ newCardLimit |-> limit, result |-> getDueItems(srsState, limit, now) ]
    /\ UNCHANGED << now, vocab, srsState, student, loading, localStorage, view,
                    currentCard, isAnimating, gradeRating, sessionReviewsCompleted,
                    masteryXP, masteryLog, readingPaid, timers, callVars, pc >>

ImportNext ==
    \/ \E n \in 1..MaxImport, level \in ImportLevels : ImportCall(n, level)
    \/ ImportTick
    \/ \E limit \in DueLimits : ImportDue(limit)

SpecImport == ImportInit /\ [][ImportNext]_vars

\* the positions of the imported review states in the collection
Imported == { i \in 1..Len(srsState) : srsState[i].id > 100 }

\* the position of the review state of an id in the selector's output, 0 if absent
SelectedAt(id) ==
    IF \E k \in 1..Len(Selected) : Selected[k].id = id
    THEN CHOOSE k \in 1..Len(Selected) : Selected[k].id = id
    ELSE 0

\* C20: an import of n words creates n review states with reviews 0, interval
\* 0, lapses 0 and ease 2.5, whose due dates strictly increase with the import
\* index and are all <= now, so that all n are due at once and the selector
\* returns them in import order.
C20_ImportedDueInOrder ==
    pc = "imported" =>
        /\ Cardinality(Imported) = Len(vocab) - Len(INITIAL_VOCABULARY)
        /\ \A i \in Imported :
              /\ srsState[i].reviews = 0 /\ srsState[i].interval = 0
              /\ srsState[i].lapses = 0 /\ srsState[i].easeFactor = 250
              /\ TimeLeq(srsState[i].dueDate, now)
              /\ SelectedAt(srsState[i].id) # 0
        /\ \A i, j \in Imported :
              i < j => /\ TimeLess(srsState[i].dueDate, srsState[j].dueDate)
                       /\ SelectedAt(srsState[i].id) < SelectedAt(srsState[j].id)

----------------------------------------------------------------------------
(* Studying and importing: the App within one day, the learner grading     *)
(* cards, waiting for each card to turn, and importing words.               *)

MaxStudyGradings == 4   \* graded reviews in a run
MaxStudyVocab == 5      \* vocabulary size up to which words are imported

StudyNext ==
    \/ LoadData
    \/ OpenFlashcards
    \/ \E rating \in MasteryRatings :
          CanGrade(rating, MaxStudyGradings) /\ HandleGrade(rating)
    \/ CommitGrade
    \/ LeaveFlashcards("DASHBOARD")
    \/ OpenView("IMPORT")
    \/ BackToDashboard
    \/ \E n \in 1..2, level \in ImportLevels : ImportWordsUpTo(n, level, MaxStudyVocab)
    \/ AdvanceMinute

SpecStudy == Init /\ [][StudyNext]_vars

\* every word has exactly one review state of its id in the collection, and
\* every review state the id of exactly one word
OneToOne(words, srs) ==
    /\ \A i \in 1..Len(words) :
          Cardinality({ j \in 1..Len(srs) : srs[j].id = words[i].id }) = 1
    /\ \A j \in 1..Len(srs) :
          Cardinality({ i \in 1..Len(words) : words[i].id = srs[j].id }) = 1

\* a step of handleSRSUpdate
GradedReviewStep ==
    /\ ~loading
    /\ ~loading'
    /\ student'.dailyProgress.reviewsDoneToday # student.dailyProgress.reviewsDoneToday

----------------------------------------------------------------------------
(* Grading in a hurry: the App within one instant, the learner grading a   *)
(* card and leaving the card view by its back button, which stays enabled  *)
(* while the 300 ms timeout is pending, then opening the cards again.       *)

MaxRaceGradings == 3    \* grade clicks accepted in a run

\* the grade clicks accepted so far: those committed and those pending
GradesAccepted == student.dailyProgress.reviewsDoneToday + Len(timers)

RaceNext ==
    \/ LoadData
    \/ OpenFlashcards
    \/ \E rating \in Ratings :
          /\ GradesAccepted < MaxRaceGradings
          /\ CanGrade(rating, MaxRaceGradings)
          /\ HandleGrade(rating)
    \/ CommitGrade
    \/ LeaveFlashcards("DASHBOARD")
    \/ LeaveDuringAnimation

SpecRace == Init /\ [][RaceNext]_vars

\* C22: every accepted grading, grade clicks made while the timeout of an
\* earlier one is pending included, is applied as one step to the latest
\* collection and profile: each commit adds 1 to the reviews of the
\* collection and 1 to reviewsDoneToday, and once nothing is pending the
\* collection holds as many reviews as gradings were accepted.
C22_NoLostGrading ==
    /\ [] ( timers = << >> =>
              /\ SumReviews(srsState) = GradesAccepted
              /\ localStorage.hasData => SumReviews(localStorage.srs) = GradesAccepted )
    /\ [][ GradedReviewStep =>
             /\ student'.dailyProgress.reviewsDoneToday
                  = student.dailyProgress.reviewsDoneToday + 1
             /\ SumReviews(srsState') = SumReviews(srsState) + 1 ]_vars

----------------------------------------------------------------------------
(* A day of reviewing: the App within one day, the learner grading every   *)
(* card "Again", session after session, each card due again a minute later. *)

MaxGoalGradings == 22   \* graded reviews in a run

GoalNext ==
    \/ LoadData
    \/ OpenFlashcards
    \/ CanGrade(0, MaxGoalGradings) /\ HandleGrade(0)
    \/ CommitGrade
    \/ LeaveFlashcards("DASHBOARD")
    \/ AdvanceToDue

SpecGoal == Init /\ [][GoalNext]_vars

----------------------------------------------------------------------------
(* Speaking sessions: the App in the speaking view, the analysis setting   *)
(* the feedback and the learner completing the session again and again.     *)

\* the scores of an analysis, in tenths: 0, 0.4, 0.5, 1, 19.4, ..., 100
AnalysisScores == { 0, 4, 5, 10, 194, 195, 200, 205, 404, 995, 1000 }

\* the profile when the speaking view is opened: the flags of the day set or
\* not, the last study date never or today
SpeakingProfiles ==
    { [ INITIAL_STUDENT_PROFILE([ d |-> StartDay, ms |-> 0 ]) EXCEPT
          !.lastStudyDate = last,
          !.streakDays = IF last = Epoch THEN 0 ELSE 1,
          !.dailyProgress.speaking = speaking,
          !.dailyProgress.reading = reading ] :
      last \in { Epoch, [ d |-> StartDay, ms |-> 0 ] },
      speaking \in BOOLEAN, reading \in BOOLEAN }

SpeakingInit ==
    /\ now = [ d |-> StartDay, ms |-> 0 ]
    /\ vocab = INITIAL_VOCABULARY
    /\ srsState = INITIAL_SRS_STATE(now)
    /\ student \in SpeakingProfiles
    /\ loading = FALSE
    /\ localStorage = [ EmptyStorage EXCEPT !.hasData = TRUE, !.vocab = vocab,
                                            !.srs = srsState ]
    /\ view = "SPEAKING"
    /\ currentCard = NoCard
    /\ isAnimating = FALSE
    /\ gradeRating = 0
    /\ sessionReviewsCompleted = 0
    /\ masteryXP = 0
    /\ dueItems = [ newCardLimit |-> -1, result |-> << >> ]
    /\ masteryLog = << >>
    /\ readingPaid = NoReadingPaid
    /\ timers = << >>
    /\ feedback = NoFeedback
    /\ xpRank = NoRank
    /\ levelStats = NoStats
    /\ pc = "app"

\* SpeakingPractice: setFeedback(result) after an analysis
SetFeedback(score) ==
    /\ view = "SPEAKING"
    /\ feedback' = [ present |-> TRUE, score |-> score ]
    /\ UNCHANGED << now, vocab, srsState, student, loading, localStorage, view,
                    currentCard, isAnimating, gradeRating, sessionReviewsCompleted,
                    masteryXP, dueItems, masteryLog, readingPaid, timers, xpRank,
                    levelStats, pc >>

\* onTaskComplete(feedback): const score = feedback ? feedback.score : 0
FeedbackScore == IF feedback.present THEN feedback.score ELSE 0

SpeakingNext ==
    \/ \E score \in AnalysisScores : SetFeedback(score)
    \/ SpeakingTaskComplete(FeedbackScore)

SpecSpeaking == SpeakingInit /\ [][SpeakingNext]_vars

\* C24: every completed speaking session, whether the speaking flag is set
\* or not, adds the rounded accuracy score to xp when there is feedback with
\* a score, for every score from 0 to 100, and the default of 20 only when
\* there is none (next to the streak bonus of the day's first action and the
\* reading XP of the completion that follows).
C24_SpeakingXP ==
    [][ ( view = "SPEAKING" /\ student' # student ) =>
          LET bonus   == IF LocalDay(student.lastStudyDate) < LocalDay(now)
                         THEN 100 ELSE 0
              reading == IF student.dailyProgress.reading THEN 0 ELSE 50
              gain    == student'.xp - student.xp - bonus - reading
          IN  IF feedback.present THEN IsRounded(gain, feedback.score, 10)
              ELSE gain = 20 ]_vars

----------------------------------------------------------------------------
(* The rank harness: getXPRank applied to one xp after another, as the      *)
(* render of the App applies it to student.xp.                              *)

\* the ends of the ranges, their neighbours, and a large xp
RankXPs ==
    { 0, 1, 250, 499, 500, 501, 1499, 1500, 1501, 3499, 3500, 3501, 6999, 7000,
      7001, 14999, 15000, 15001, 1000000 }

RankInit ==
    /\ now = [ d |-> StartDay, ms |-> 0 ]
    /\ vocab = INITIAL_VOCABULARY
    /\ srsState = INITIAL_SRS_STATE(now)
    /\ \E xp \in RankXPs : student = [ INITIAL_STUDENT_PROFILE(now) EXCEPT !.xp = xp ]
    /\ loading = FALSE
    /\ localStorage = EmptyStorage
    /\ view = "DASHBOARD"
    /\ currentCard = NoCard
    /\ isAnimating = FALSE
    /\ gradeRating = 0
    /\ sessionReviewsCompleted = 0
    /\ masteryXP = 0
    /\ dueItems = [ newCardLimit |-> -1, result |-> << >> ]
    /\ masteryLog = << >>
    /\ readingPaid = NoReadingPaid
    /\ timers = << >>
    /\ feedback = NoFeedback
    /\ xpRank = NoRank
    /\ levelStats = NoStats
    /\ pc = "ready"

\* const xpRank = progressionService.getXPRank(student.xp)
RankCall ==
    /\ pc = "ready"
    /\ xpRank' = [ xp |-> student.xp, rank |-> getXPRank(student.xp) ]
    /\ pc' = "done"
    /\ UNCHANGED << now, vocab, srsState, student, loading, localStorage, view,
                    currentCard, isAnimating, gradeRating, sessionReviewsCompleted,
                    masteryXP, dueItems, masteryLog, readingPaid, timers, feedback,
                    levelStats >>

\* the profile is given another xp
RankProfile(xp) ==
    /\ pc = "done"
    /\ xp # student.xp
    /\ student' = [ student EXCEPT !.xp = xp ]
    /\ pc' = "ready"
    /\ UNCHANGED << now, vocab, srsState, loading, localStorage, view,
                    currentCard, isAnimating, gradeRating, sessionReviewsCompleted,
                    masteryXP, dueItems, masteryLog, readingPaid, timers, callVars >>

RankNext ==
    \/ RankCall
    \/ \E xp \in RankXPs : RankProfile(xp)

SpecRank == RankInit /\ [][RankNext]_vars

RankTiers == << "Novice", "Apprentice", "Scholar", "Master", "Grandmaster", "Sage" >>
TierFrom == << 0, 500, 1500, 3500, 7000, 15000 >>
TierOf(rank) == CHOOSE k \in 1..6 : RankTiers[k] = rank

\* C25: getXPRank is a step function over six half-open ranges that do not
\* overlap, [0, 500) Novice, [500, 1500) Apprentice, [1500, 3500) Scholar,
\* [3500, 7000) Master, [7000, 15000) Grandmaster, [15000, ..) Sage, and is
\* monotonic: of two calls, the one with the larger xp returns the same or a
\* higher tier.
C25_RankSteps ==
    /\ [] ( pc = "done" =>
              \E k \in 1..6 :
                  /\ xpRank.rank = RankTiers[k]
                  /\ TierFrom[k] <= xpRank.xp
                  /\ k < 6 => xpRank.xp < TierFrom[k + 1] )
    /\ [][ ( xpRank.rank # "" /\ xpRank' # xpRank ) =>
             /\ xpRank.xp <= xpRank'.xp => TierOf(xpRank.rank) <= TierOf(xpRank'.rank)
             /\ xpRank.xp >= xpRank'.xp => TierOf(xpRank.rank) >= TierOf(xpRank'.rank) ]_vars

\* the rank of 1500 xp, the first xp of the third range, was computed
C25_Witness ==
    /\ pc = "done"
    /\ xpRank = [ xp |-> 1500, rank |-> "Scholar" ]
    /\ student.xp = 1500

----------------------------------------------------------------------------
(* Coverage: the App over a large vocabulary, the learner grading the due   *)
(* cards and importing words, the dashboard computing the level statistics. *)
(* The vocabulary holds, for each level 1..5, a number of mastered words    *)
(* (22 days) and one word at 21 days that is due now.                       *)

MaxCoverageGradings == 2   \* graded reviews in a run
MaxCoverageImport == 2     \* words imported in a run

\* << mastered words of level 1, ..., of level 5 >>
CoverageInputs ==
    { << 2, 0, 0, 0, 0 >>, << 118, 0, 0, 0, 0 >>, << 119, 119, 0, 0, 0 >> }

CoverageSRS(m, t) ==
    [ i \in 1..Len(LevelSRS(m)) |->
        IF LevelSRS(m)[i].interval = Days(21)
        THEN [ LevelSRS(m)[i] EXCEPT !.dueDate = t ]
        ELSE LevelSRS(m)[i] ]

\* the App after loadData on a store that holds one of the given collections
CoverageInitFrom(inputs) ==
    /\ now = [ d |-> StartDay, ms |-> 0 ]
    /\ \E m \in inputs :
          /\ vocab = LevelVocab(m)
          /\ srsState = CoverageSRS(m, now)
    /\ student = INITIAL_STUDENT_PROFILE(now)
    /\ loading = FALSE
    /\ localStorage = [ EmptyStorage EXCEPT !.hasData = TRUE, !.vocab = vocab,
                                            !.srs = srsState ]
    /\ view = "DASHBOARD"
    /\ currentCard = NoCard
    /\ isAnimating = FALSE
    /\ gradeRating = 0
    /\ sessionReviewsCompleted = 0
    /\ masteryXP = 0
    /\ dueItems = [ newCardLimit |-> -1, result |-> << >> ]
    /\ masteryLog = << >>
    /\ readingPaid = NoReadingPaid
    /\ timers = << >>
    /\ feedback = NoFeedback
    /\ xpRank = NoRank
    /\ levelStats = NoStats
    /\ pc = "app"

CoverageInit == CoverageInitFrom(CoverageInputs)

\* progressionService.getLevelStats(level, vocab, srsState) of the dashboard
StatsCall(level) ==
    /\ ~loading
    /\ view = "DASHBOARD"
    /\ levelStats' = getLevelStats(level, vocab, srsState)
    /\ UNCHANGED << now, vocab, srsState, student, loading, localStorage, view,
                    currentCard, isAnimating, gradeRating, sessionReviewsCompleted,
                    masteryXP, dueItems, masteryLog, readingPaid, timers, feedback,
                    xpRank, pc >>

\* the words of the vocabulary that were imported: the others have their
\* position as id
ImportedWords == { i \in 1..Len(vocab) : vocab[i].id # i }

CoverageNext ==
    \/ OpenFlashcards
    \/ /\ student.dailyProgress.reviewsDoneToday < MaxCoverageGradings
       /\ HandleGrade(3)
    \/ CommitGrade
    \/ LeaveFlashcards("DASHBOARD")
    \/ OpenView("IMPORT")
    \/ BackToDashboard
    \/ \E n \in 1..2, level \in 1..2 :
          /\ Cardinality(ImportedWords) + n <= MaxCoverageImport
          /\ ImportWordsUpTo(n, level, Len(vocab) + n)
    \/ \E level \in { 1, 2, 6 } : StatsCall(level)

SpecCoverage == CoverageInit /\ [][CoverageNext]_vars

RequiredAll == << 150, 150, 300, 600, 1300, 2500 >>

\* C26: the statistics of a level are computed against the level's fixed
\* count, whatever was imported: an import changes no level's statistics,
\* and while the vocabulary holds fewer than 120 words of level 1 the
\* effective level is 1, however many of them are mastered.
C26_FixedDenominator ==
    /\ [] ( Cardinality({ i \in 1..Len(vocab) : vocab[i].level = 1 }) < 120
              => student.hskLevel = 1 )
    /\ [][ /\ levelStats' # levelStats =>
                /\ levelStats'.totalRequired = RequiredAll[levelStats'.level]
                /\ levelStats'.masteredCount = TrulyMastered(levelStats'.level)
                /\ IF levelStats'.masteredCount >= levelStats'.totalRequired
                   THEN levelStats'.percentage = 100
                   ELSE IsRounded(levelStats'.percentage,
                                  levelStats'.masteredCount * 100,
                                  levelStats'.totalRequired)
           /\ vocab' # vocab =>
                \A l \in 1..6 :
                    getLevelStats(l, vocab', srsState') = getLevelStats(l, vocab, srsState)
         ]_vars

\* 119 words of level 1, all of them mastered after a graded review, two
\* words of level 2 imported, the statistics of level 1 computed: 79 percent
C26_Witness ==
    /\ Cardinality({ i \in 1..Len(vocab) : vocab[i].level = 1 }) = 119
    /\ TrulyMastered(1) = 119
    /\ Cardinality(ImportedWords) = 2
    /\ levelStats = [ level |-> 1, masteredCount |-> 119, totalRequired |-> 150,
                      percentage |-> 79 ]
    /\ student.hskLevel = 1
    /\ student.dailyProgress.reviewsDoneToday >= 1

----------------------------------------------------------------------------
(* The purity harness: getDueItems applied to a collection and             *)
(* calculateReview applied to its first item; srsState is the collection    *)
(* as the caller holds it, before and after each call.                      *)

\* calculateReview(items[0], rating): the result is kept in currentCard
PureReview(rating) ==
    /\ pc \in { "ready", "done" }
    /\ Len(srsState) > 0
    /\ currentCard' = calculateReview(srsState[1], rating, now)
    /\ gradeRating' = rating
    /\ srsState' = [ srsState EXCEPT ![1] = ItemAfterReview(srsState[1], rating, now) ]
    /\ pc' = "done"
    /\ UNCHANGED << now, vocab, student, loading, localStorage, view, isAnimating,
                    sessionReviewsCompleted, masteryXP, dueItems, masteryLog,
                    readingPaid, timers, callVars >>

PureNext ==
    \/ \E limit \in DueLimits : DueCall(limit)
    \/ \E rating \in Ratings : PureReview(rating)

SpecPure == DueInit /\ [][PureNext]_vars

----------------------------------------------------------------------------
(* The App with a store whose writes may throw: a full or disabled          *)
(* localStorage makes setItem throw inside updateSRSItem or updateProfile.  *)

MaxWriteGradings == 2

WritesNext ==
    \/ LoadData
    \/ OpenFlashcards
    \/ \E rating \in MasteryRatings :
          CanGrade(rating, MaxWriteGradings) /\ HandleGrade(rating)
    \/ \E itemWritten \in BOOLEAN, profileWritten \in BOOLEAN :
          CommitGradeWriting(itemWritten, profileWritten)
    \/ \E target \in { "DASHBOARD", "READING" } : LeaveFlashcards(target)
    \/ OpenView("READING")
    \/ BackToDashboard
    \/ \E written \in BOOLEAN : ReadingTaskCompleteWriting(written)
    \/ AdvanceDays(1)

SpecWrites == Init /\ [][WritesNext]_vars

\* a step of handleTaskCompletion in the reading view
ReadingTaskStep ==
    /\ ~loading
    /\ ~loading'
    /\ view = "READING"
    /\ view' = "READING"
    /\ now' = now
    /\ readingPaid' # readingPaid \/ student' # student \/ localStorage' # localStorage

----------------------------------------------------------------------------
(* The App with words that have no review state: importWords stores the    *)
(* vocabulary, then the review states; when the second setItem throws, the  *)
(* store keeps the new words without states, and the next load brings them  *)
(* into memory.                                                             *)

MaxOrphans == 2          \* words stored without a review state
MaxOrphanGradings == 1   \* graded reviews of a day

\* handleImportWords when the second setItem of importWords throws: the
\* vocabulary is stored, the review states are not, the rejection is caught
\* and the collections in memory stay
ImportWordsFailing(n, level) ==
    /\ view = "IMPORT"
    /\ Len(localStorage.vocab) - Len(localStorage.srs) + n <= MaxOrphans
    /\ localStorage' =
         [ localStorage EXCEPT
             !.vocab = localStorage.vocab \o NewWords(localStorage.vocab, n, level) ]
    /\ UNCHANGED << now, vocab, srsState, student, loading, view, currentCard,
                    isAnimating, gradeRating, sessionReviewsCompleted, masteryXP,
                    dueItems, masteryLog, readingPaid, timers, callVars, pc >>

\* dashboardDueItems of the App's render
DashboardDue ==
    /\ ~loading
    /\ view = "DASHBOARD"
    /\ dueItems' = [ newCardLimit |-> DAILY_NEW_CARD_LIMIT,
                     result |-> getDueItems(srsState, DAILY_NEW_CARD_LIMIT, now) ]
    /\ UNCHANGED << now, vocab, srsState, student, loading, localStorage, view,
                    currentCard, isAnimating, gradeRating, sessionReviewsCompleted,
                    masteryXP, masteryLog, readingPaid, timers, callVars, pc >>

OrphanNext ==
    \/ LoadData
    \/ Reload
    \/ OpenView("IMPORT")
    \/ BackToDashboard
    \/ \E n \in 1..2, level \in 1..2 : ImportWordsFailing(n, level)
    \/ OpenFlashcards
    \/ /\ student.dailyProgress.reviewsDoneToday < MaxOrphanGradings
       /\ HandleGrade(3)
    \/ CommitGrade
    \/ LeaveFlashcards("DASHBOARD")
    \/ \E level \in 1..2 : StatsCall(level)
    \/ DashboardDue

\* << mastered words of level 1, ..., of level 5 >>
OrphanInputs == { << 2, 0, 0, 0, 0 >>, << 1, 1, 0, 0, 0 >> }

OrphanInit == CoverageInitFrom(OrphanInputs)

SpecOrphans == OrphanInit /\ [][OrphanNext]_vars

HasState(word, srs) == \E j \in 1..Len(srs) : srs[j].id = word.id

\* the words of the vocabulary that have no review state
Orphans == { i \in 1..Len(vocab) : ~HasState(vocab[i], srsState) }

\* the vocabulary with these words left out
WithoutOrphans(words, srs) == SelectSeq(words, LAMBDA w : HasState(w, srs))

\* C29: a word without a review state is absent from scheduling: the
\* selector's output and the card shown hold only items of the review-state
\* collection, the statistics of a level and the effective level are the ones
\* of the vocabulary with such words left out (so none of them counts as
\* mastered), and the level is one of 1..6.
C29_OrphansAbsent ==
    /\ [] ( student.hskLevel \in 1..6 )
    /\ [] ( ( ~loading /\ currentCard # NoCard ) =>
              ( HasState(currentCard, srsState) /\ currentCard.id \notin
                  { vocab[i].id : i \in Orphans } ) )
    /\ [][ /\ dueItems' # dueItems =>
                \A k \in 1..Len(dueItems'.result) :
                    /\ \E j \in 1..Len(srsState) : srsState[j] = dueItems'.result[k]
                    /\ dueItems'.result[k].id \notin { vocab[i].id : i \in Orphans }
           /\ levelStats' # levelStats =>
                /\ levelStats' = getLevelStats(levelStats'.level,
                                               WithoutOrphans(vocab, srsState), srsState)
                /\ levelStats'.masteredCount <=
                       Cardinality({ j \in 1..Len(srsState) :
                                       srsState[j].interval > 21 * IntervalScale })
           /\ GradedReviewStep =>
                student'.hskLevel =
                    calculateEffectiveHSKLevel(WithoutOrphans(vocab, srsState'), srsState')
         ]_vars

\* three words of level 1, all mastered after a graded review, and two words
\* of level 1 without a review state: the statistics count 3, the level is 1,
\* the dashboard's queue holds the due items of the other levels
C29_Witness ==
    /\ ~loading
    /\ Cardinality({ i \in Orphans : vocab[i].level = 1 }) = 2
    /\ Len(vocab) = Len(srsState) + 2
    /\ student.dailyProgress.reviewsDoneToday = 1
    /\ student.hskLevel = 1
    /\ levelStats = [ level |-> 1, masteredCount |-> 3, totalRequired |-> 150,
                      percentage |-> 2 ]
    /\ dueItems.newCardLimit = DAILY_NEW_CARD_LIMIT
    /\ Len(dueItems.result) = 4

----------------------------------------------------------------------------
(* The capped output of getDueItems, checked under SpecDue *)

\* the sorted order: more lapses first, then the older due date, then the
\* earlier place in the collection (the id of a harness item is its place)
StandsBefore(a, b) ==
    \/ a.lapses > b.lapses
    \/ /\ a.lapses = b.lapses
       /\ \/ TimeLess(a.dueDate, b.dueDate)
          \/ a.dueDate = b.dueDate /\ a.id < b.id

DueReviewed == { k \in 1..Len(srsState) :
                   TimeLeq(srsState[k].dueDate, now) /\ srsState[k].reviews > 0 }

DueNew == { k \in 1..Len(srsState) :
              TimeLeq(srsState[k].dueDate, now) /\ srsState[k].reviews = 0 }

\* C30: with a cap N >= 0 the output is every due reviewed item followed by
\* the first N due never-reviewed items: its length is the number of the
\* former plus the smaller of N and the number of the latter, the reviewed
\* items come first, each group is in sorted order, and every never-reviewed
\* item left out comes after every one kept in the sorted order.
C30_ReviewedThenFirstNew ==
    ( pc = "done" /\ dueItems.newCardLimit >= 0 ) =>
        LET n == Cardinality(DueReviewed)
        IN  /\ Len(Selected) =
                 n + IF dueItems.newCardLimit < Cardinality(DueNew)
                     THEN dueItems.newCardLimit ELSE Cardinality(DueNew)
            /\ \A i \in 1..Len(Selected) :
                  /\ \E k \in DueReviewed \cup DueNew : srsState[k] = Selected[i]
                  /\ i <= n => Selected[i].reviews > 0
                  /\ i > n => Selected[i].reviews = 0
            /\ \A i, j \in 1..Len(Selected) :
                  ( i < j /\ ( j <= n \/ i > n ) ) => StandsBefore(Selected[i], Selected[j])
            /\ \A k \in DueNew :
                  ( \A i \in 1..Len(Selected) : Selected[i] # srsState[k] ) =>
                      \A i \in 1..Len(Selected) :
                          i > n => StandsBefore(Selected[i], srsState[k])

\* the cap is 1; the collection holds a never-reviewed item, then one with an
\* older due date, then a reviewed item, all due: the output is the reviewed
\* item followed by the second never-reviewed item
C30_Witness ==
    /\ pc = "done"
    /\ dueItems.newCardLimit = 1
    /\ Len(srsState) = 3
    /\ DueNew = { 1, 2 }
    /\ DueReviewed = { 3 }
    /\ TimeLess(srsState[2].dueDate, srsState[1].dueDate)
    /\ Selected = << srsState[3], srsState[2] >>

----------------------------------------------------------------------------
(* The uncapped output of getDueItems, checked under SpecDue *)

\* C31: without a cap (newCardLimit = -1) the output holds exactly the items
\* whose due date is not after now, each once, ordered by lapses descending,
\* then due date ascending, and items equal on both keep the order they have
\* in the collection.
C31_DueSortedStable ==
    ( pc = "done" /\ dueItems.newCardLimit = -1 ) =>
        /\ Len(Selected) = Cardinality(DueReviewed \cup DueNew)
        /\ \A i \in 1..Len(Selected) :
              \E k \in 1..Len(srsState) :
                  srsState[k] = Selected[i] /\ ~TimeLess(now, srsState[k].dueDate)
        /\ \A i, j \in 1..Len(Selected) :
              i < j =>
                  /\ Selected[i].lapses >= Selected[j].lapses
                  /\ Selected[i].lapses = Selected[j].lapses =>
                        /\ ~TimeLess(Selected[j].dueDate, Selected[i].dueDate)
                        /\ Selected[i].dueDate = Selected[j].dueDate =>
                              Selected[i].id < Selected[j].id

\* no cap; two items with the same lapses and due date, then an item with
\* more lapses: the output is the third item, then the first two in their
\* order
C31_Witness ==
    /\ pc = "done"
    /\ dueItems.newCardLimit = -1
    /\ Len(srsState) = 3
    /\ srsState[1].lapses = srsState[2].lapses
    /\ srsState[1].dueDate = srsState[2].dueDate
    /\ srsState[1].reviews # srsState[2].reviews
    /\ srsState[3].lapses > srsState[1].lapses
    /\ Selected = << srsState[3], srsState[1], srsState[2] >>

----------------------------------------------------------------------------
(* A flashcard session over a backlog of never-reviewed words: the seeded   *)
(* words and a file of imported ones, all due once a minute has passed.     *)

MaxThrottleGradings == 17   \* graded reviews of a run
MaxThrottleImport == 14     \* words of the imported file

ThrottleNext ==
    \/ LoadData
    \/ OpenView("IMPORT")
    \/ BackToDashboard
    \/ \E n \in { MaxThrottleImport - 1, MaxThrottleImport } :
          /\ Len(vocab) = Len(INITIAL_VOCABULARY)
          /\ ImportWordsUpTo(n, 1, Len(vocab) + n)
    \/ AdvanceMinute
    \/ OpenFlashcards
    \/ \E rating \in MasteryRatings :
          /\ CanGrade(rating, MaxThrottleGradings)
          /\ rating = 0 => SumReviews(srsState) < 2
          /\ HandleGrade(rating)
    \/ CommitGrade
    \/ LeaveFlashcards("DASHBOARD")

SpecThrottle == Init /\ [][ThrottleNext]_vars

\* the items that have been graded: every item of the run starts never
\* reviewed, and the run stays within one day
FirstGraded == { j \in 1..Len(srsState) : srsState[j].reviews > 0 }

\* C32: the card view never serves a never-reviewed item for its first
\* grading once 15 never-reviewed items have had theirs, in the session and
\* on the day.
C32_NewCardsThrottled ==
    ( view = "FLASHCARDS" /\ currentCard # NoCard /\ currentCard.reviews = 0 ) =>
        /\ Cardinality(FirstGraded) < FLASHCARDS_NEW_CARD_LIMIT
        /\ sessionReviewsCompleted < FLASHCARDS_NEW_CARD_LIMIT

----------------------------------------------------------------------------
(* The App over a vocabulary close to a level gate: for each level a given  *)
(* number of mastered words (22 days) and one word more.  The extra word of *)
(* level 1 has an interval of 15 days and fell due yesterday; the first     *)
(* mastered word falls due now; nothing else is due.                        *)

MaxProgressGradings == 2   \* gradings accepted in a run

\* << mastered words of level 1, ..., of level 5 >>
ProgressInputs == { << 119, 119, 0, 0, 0 >>, << 2, 0, 0, 0, 0 >> }

ProgressSRS(m, t) ==
    [ i \in 1..Len(LevelSRS(m)) |->
        IF i = m[1] + 1
        THEN [ LevelSRS(m)[i] EXCEPT !.interval = Days(15),
                                     !.dueDate = [ d |-> t.d - 1, ms |-> 0 ] ]
        ELSE IF i = 1 THEN [ LevelSRS(m)[i] EXCEPT !.dueDate = t ]
        ELSE LevelSRS(m)[i] ]

ProgressInit ==
    /\ now = [ d |-> StartDay, ms |-> 0 ]
    /\ \E m \in ProgressInputs :
          /\ vocab = LevelVocab(m)
          /\ srsState = ProgressSRS(m, now)
    /\ student = INITIAL_STUDENT_PROFILE(now)
    /\ loading = FALSE
    /\ localStorage = [ EmptyStorage EXCEPT !.hasData = TRUE, !.vocab = vocab,
                                            !.srs = srsState ]
    /\ view = "DASHBOARD"
    /\ currentCard = NoCard
    /\ isAnimating = FALSE
    /\ gradeRating = 0
    /\ sessionReviewsCompleted = 0
    /\ masteryXP = 0
    /\ dueItems = [ newCardLimit |-> -1, result |-> << >> ]
    /\ masteryLog = << >>
    /\ readingPaid = NoReadingPaid
    /\ timers = << >>
    /\ feedback = NoFeedback
    /\ xpRank = NoRank
    /\ levelStats = NoStats
    /\ pc = "app"

ProgressNext ==
    \/ OpenFlashcards
    \/ \E rating \in Ratings :
          /\ currentCard # NoCard
          /\ student.dailyProgress.reviewsDoneToday + Len(timers) < MaxProgressGradings
          /\ rating = 1 => HardRepresentable(currentCard.interval)
          /\ HandleGrade(rating)
    \/ CommitGrade
    \/ \E target \in { "DASHBOARD", "READING" } : LeaveFlashcards(target)
    \/ LeaveDuringAnimation
    \/ \E target \in { "READING", "SPEAKING" } : OpenView(target)
    \/ BackToDashboard
    \/ ReadingTaskComplete
    \/ SpeakingTaskComplete(404)

SpecProgress == ProgressInit /\ [][ProgressNext]_vars

\* the words of a level whose review state, at the same place of the
\* collection, has an interval above 21 days
MasteredAt(level) ==
    Cardinality({ i \in 1..Len(vocab) :
        /\ vocab[i].level = level
        /\ srsState[i].id = vocab[i].id
        /\ srsState[i].interval > 21 * IntervalScale })

\* the level the collection gives: the first level of 1..5 whose mastered
\* words, as a percentage of the level's count rounded to a whole number, are
\* below 80 (100 * m / T < 79.5), else 6
DerivedLevel ==
    LET blocked == { l \in 1..5 : 200 * MasteredAt(l) < 159 * RequiredCounts[l] }
    IN  IF blocked = {} THEN 6 ELSE CHOOSE l \in blocked : \A k \in blocked : l <= k

ChangedStates == { k \in 1..Len(srsState) : srsState'[k] # srsState[k] }

\* a step of handleTaskCompletion in the reading or the speaking view
TaskStep ==
    /\ view \in { "READING", "SPEAKING" }
    /\ view' = view
    /\ student' # student
    /\ student'.dailyProgress.reviewsDoneToday = student.dailyProgress.reviewsDoneToday

\* C34: a graded review changes at most the review state that carries the id
\* of the graded card, which keeps its id and its place, and leaves the other
\* review states and the vocabulary as they are; a reading or speaking
\* completion changes no review state, no word and not the level.
C34_GradingTouchesOneState ==
    [][ /\ GradedReviewStep =>
            /\ vocab' = vocab
            /\ Len(srsState') = Len(srsState)
            /\ \A k \in ChangedStates :
                  /\ srsState[k].id = Head(timers).card.id
                  /\ srsState'[k].id = srsState[k].id
            /\ Cardinality(ChangedStates) <= 1
        /\ TaskStep =>
            /\ srsState' = srsState
            /\ vocab' = vocab
            /\ student'.hskLevel = student.hskLevel ]_vars


----------------------------------------------------------------------------
(* C35: the experience points of a graded review *)

\* the interval in srs of the review state that carries id, 0 without one
IntervalOf(srs, id) ==
    IF FindSrs(srs, id) = 0 THEN 0 ELSE srs[FindSrs(srs, id)].interval

\* C35: a graded review changes xp by exactly the review XP (1), plus the
\* mastery bonus for the interval the graded item has in the collection
\* before the step and the one it has after it, plus the streak bonus (100)
\* when the review is the first action of its calendar day.
C35_ReviewXP ==
    [][ GradedReviewStep =>
          LET id == Head(timers).card.id
          IN  student'.xp = student.xp + REVIEW_CARD
                  + checkMasteryBonus(IntervalOf(srsState, id),
                                      IntervalOf(srsState', id), id, vocab)
                  + ( IF IsFirstActionToday(student, now) THEN DAILY_STREAK ELSE 0 ) ]_vars


----------------------------------------------------------------------------
(* C36: one grading in flight, computed from the card's current state *)

\* the pending timeouts of the Flashcards instance that is mounted
MountedTimers == { i \in 1..Len(timers) : timers[i].mounted }

\* a grade click is accepted
GradeAccepted == Len(timers') = Len(timers) + 1

\* the review state the collection holds for the card of the oldest timeout
CurrentState(card) ==
    IF FindSrs(srsState, card.id) = 0 THEN NoCard
    ELSE srsState[FindSrs(srsState, card.id)]

\* C36: the mounted card view has at most one grading pending, a grade click
\* is accepted only while none is pending, and the grading that a timeout
\* commits is computed from the state the collection holds for the card at
\* that moment, never from a copy an earlier commit has replaced.
C36_OneGradingInFlight ==
    /\ [] ( Cardinality(MountedTimers) <= 1 )
    /\ [][ GradeAccepted => ( ~isAnimating /\ MountedTimers = {} ) ]_vars
    /\ [][ GradedReviewStep => Head(timers).card = CurrentState(Head(timers).card) ]_vars


----------------------------------------------------------------------------
(* Lapses and reviews: the App over two days, the learner importing words, *)
(* grading cards with every rating, leaving the cards while a grading is    *)
(* pending, and looking at the dashboard's due list.                        *)

MaxLapseGradings == 2   \* grade clicks accepted in a run
MaxLapseVocab == 4      \* vocabulary size up to which words are imported

LapseNext ==
    \/ LoadData
    \/ OpenFlashcards
    \/ \E rating \in Ratings :
          /\ GradesAccepted < MaxLapseGradings
          /\ CanGrade(rating, MaxLapseGradings)
          /\ HandleGrade(rating)
    \/ CommitGrade
    \/ LeaveFlashcards("DASHBOARD")
    \/ LeaveDuringAnimation
    \/ OpenView("IMPORT")
    \/ BackToDashboard
    \/ ImportWordsUpTo(1, 1, MaxLapseVocab)
    \/ AdvanceDays(1)
    \/ DashboardDue

SpecLapses == Init /\ [][LapseNext]_vars

LapsesWithinReviews(srs) ==
    \A i \in 1..Len(srs) :
       /\ srs[i].lapses <= srs[i].reviews
       /\ srs[i].reviews = 0 => ( srs[i].lapses = 0 /\ srs[i].interval = 0 )

\* C37: in every state reached by imports and gradings each review state has
\* lapses <= reviews, and a never-reviewed one has lapses 0 and interval 0, in
\* memory and in the store; the capped output of the selector, reviewed items
\* first, is ordered by lapses descending throughout.
C37_LapsesWithinReviews ==
    /\ LapsesWithinReviews(srsState)
    /\ LapsesWithinReviews(localStorage.srs)
    /\ dueItems.newCardLimit # -1 =>
          \A i, j \in 1..Len(Selected) :
             i < j => Selected[i].lapses >= Selected[j].lapses

\* the capped output holds a forgotten item, then a reviewed item that was
\* never forgotten, then never-reviewed items, an imported one among them
C37_Witness ==
    /\ dueItems.newCardLimit = DAILY_NEW_CARD_LIMIT
    /\ Len(Selected) = 4
    /\ Selected[1].lapses = 1
    /\ Selected[2].reviews > 0
    /\ Selected[2].lapses = 0
    /\ Selected[3].reviews = 0
    /\ Selected[4].id > 100


----------------------------------------------------------------------------
(* Runs of "Good": calculateReview applied to the imported item, first with *)
(* any ratings, then with "Good" only.  srsState holds the state the run of *)
(* "Good" started from, currentCard the state the last call returned.       *)

MaxPrefix == 8       \* gradings with any rating before the run of "Good"
MaxGoodRun == 10     \* gradings of a run of "Good"
MaxGoodDays == 100   \* interval in days up to which the item is graded on

GoodInit ==
    /\ now = [ d |-> StartDay, ms |-> 0 ]
    /\ currentCard = INITIAL_SRS_STATE(now)[1]
    /\ srsState = << currentCard >>
    /\ vocab = INITIAL_VOCABULARY
    /\ student = INITIAL_STUDENT_PROFILE(now)
    /\ loading = FALSE
    /\ localStorage = EmptyStorage
    /\ view = "FLASHCARDS"
    /\ isAnimating = FALSE
    /\ gradeRating = 0
    /\ sessionReviewsCompleted = 0
    /\ masteryXP = 0
    /\ dueItems = [ newCardLimit |-> -1, result |-> << >> ]
    /\ masteryLog = << >>
    /\ readingPaid = NoReadingPaid
    /\ timers = << >>
    /\ feedback = NoFeedback
    /\ xpRank = NoRank
    /\ levelStats = NoStats
    /\ pc = "ready"

\* the gradings of the run of "Good" so far
GoodRun == currentCard.reviews - srsState[1].reviews

\* a grading with any rating, before the run of "Good" starts
PrefixCall(rating) ==
    /\ GoodRun = 0
    /\ currentCard.reviews < MaxPrefix
    /\ currentCard.interval <= Days(MaxGoodDays)
    /\ rating = 1 => HardRepresentable(currentCard.interval)
    /\ currentCard' = calculateReview(currentCard, rating, now)
    /\ srsState' = << currentCard' >>
    /\ gradeRating' = rating
    /\ pc' = "done"
    /\ UNCHANGED << now, vocab, student, loading, localStorage, view, isAnimating,
                    sessionReviewsCompleted, masteryXP, dueItems, masteryLog,
                    readingPaid, timers, callVars >>

\* a grading of the run of "Good", which ends when the item is mastered
GoodRunCall ==
    /\ GoodRun < MaxGoodRun
    /\ currentCard.interval <= Days(MASTERY_THRESHOLD_DAYS)
    /\ currentCard' = calculateReview(currentCard, 2, now)
    /\ gradeRating' = 2
    /\ pc' = "done"
    /\ UNCHANGED << now, vocab, srsState, student, loading, localStorage, view,
                    isAnimating, sessionReviewsCompleted, masteryXP, dueItems,
                    masteryLog, readingPaid, timers, callVars >>

GoodNext ==
    \/ \E rating \in Ratings : PrefixCall(rating)
    \/ GoodRunCall

SpecGood == GoodInit /\ [][GoodNext]_vars /\ WF_vars(GoodRunCall)

\* a call of calculateReview with "Good"
GoodStep == gradeRating' = 2 /\ currentCard'.reviews = currentCard.reviews + 1

\* C38: from every state the imported item reaches, "Good" strictly increases
\* the interval; an item graded "Good" again and again has an interval above
\* 21 days after at most MaxGoodRun gradings, and is bound to get there; no
\* state has an interval strictly between 0 and 1 day, nor an ease under 1.3.
C38_GoodLeadsToMastery ==
    /\ [][ GoodStep => currentCard'.interval > currentCard.interval ]_vars
    /\ [] ( /\ currentCard.easeFactor >= 130
            /\ currentCard.interval = 0 \/ currentCard.interval >= Days(1) )
    /\ [] ( GoodRun >= MaxGoodRun
              => currentCard.interval > Days(MASTERY_THRESHOLD_DAYS) )
    /\ <> ( currentCard.interval > Days(MASTERY_THRESHOLD_DAYS) )

\* the slowest run: from an interval of 1.2 days at the lowest ease, nine
\* gradings "Good" arrive at 21 days, one short of mastery
C38_Witness ==
    /\ srsState[1].interval = 30
    /\ srsState[1].easeFactor = 130
    /\ GoodRun = MaxGoodRun - 1
    /\ currentCard.interval = Days(MASTERY_THRESHOLD_DAYS)


----------------------------------------------------------------------------
(* C39: gradings other than "Again" and the mastered set *)

\* a step of handleSRSUpdate for a grading "Hard", "Good" or "Easy"
PassedReviewStep == GradedReviewStep /\ Head(timers).rating \in { 1, 2, 3 }

\* C39: a grading "Hard", "Good" or "Easy" leaves a mastered item mastered
\* (an interval above 21 days stays above 21 days), lowers no level's count
\* of mastered words and lowers neither the level the collection gives nor
\* the level of the profile.
C39_PassedReviewKeepsMastery ==
    [][ PassedReviewStep =>
          LET id == Head(timers).card.id
          IN  /\ IntervalOf(srsState, id) > Days(MASTERY_THRESHOLD_DAYS)
                   => IntervalOf(srsState', id) > Days(MASTERY_THRESHOLD_DAYS)
              /\ \A l \in 1..5 : MasteredAt(l)' >= MasteredAt(l)
              /\ DerivedLevel' >= DerivedLevel
              /\ student.dailyProgress.reviewsDoneToday >= 1
                   => student'.hskLevel >= student.hskLevel ]_vars


----------------------------------------------------------------------------
(* Long sessions: the App over a backlog of more due words than a session  *)
(* serves, the clock standing still while the cards are shown.  The learner *)
(* grades, leaves (also while a grading is pending), comes back, and asks   *)
(* for more when a session is complete.  Choosing and reading the file of   *)
(* an import takes longer than the 300 ms of a pending timeout.             *)

MaxSessionGradings == 22   \* grade clicks accepted in a run
MaxSessionImport == 18     \* words of the imported file

\* the "Review More" button of the completion screen, shown when the
\* session is complete and the backlog is not empty
ReviewMore ==
    /\ view = "FLASHCARDS"
    /\ currentCard = NoCard
    /\ ~isAnimating
    /\ sessionReviewsCompleted >= SESSION_BATCH_SIZE
    /\ Len(getDueItems(srsState, -1, now)) > 0
    /\ sessionReviewsCompleted' = 0
    /\ currentCard' = FlashcardsCard(srsState, 0, now)
    /\ UNCHANGED << now, vocab, srsState, student, loading, localStorage, view,
                    isAnimating, gradeRating, masteryXP, dueItems, masteryLog,
                    readingPaid, timers, callVars, pc >>

SessionNext ==
    \/ LoadData
    \/ OpenView("IMPORT")
    \/ BackToDashboard
    \/ /\ Len(vocab) = Len(INITIAL_VOCABULARY)
       /\ timers = << >>
       /\ ImportWordsUpTo(MaxSessionImport, 1, Len(vocab) + MaxSessionImport)
    \/ view = "DASHBOARD" /\ AdvanceMinute
    \/ OpenFlashcards
    \/ \E rating \in MasteryRatings :
          /\ currentCard # NoCard
          /\ GradesAccepted < MaxSessionGradings
          /\ rating = 0 => GradesAccepted < 2
          /\ HandleGrade(rating)
    \/ CommitGrade
    \/ LeaveFlashcards("DASHBOARD")
    \/ GradesAccepted <= 2 /\ LeaveDuringAnimation
    \/ ReviewMore

SpecSession == Init /\ [][SessionNext]_vars

\* the ids of the cards the open session has yet to deal with: the due ones
\* and the one whose grading the session has accepted and not yet committed
SessionBacklog ==
    { srsState[i].id : i \in { j \in 1..Len(srsState) : IsDue(srsState[j], now) } }
      \cup { timers[k].card.id : k \in { n \in 1..Len(timers) : timers[n].mounted } }

\* the timeout of the open session fires
SessionCommit == GradedReviewStep /\ Head(timers).mounted

\* C40: a session stops serving cards once 20 gradings are committed, and
\* serves again only after "Review More" (or as a new session); a committed
\* grading leaves the card not due for at least a minute, the next card is
\* never the card just graded, and while the clock stands still each
\* committed grading takes one card off the session's backlog and no step
\* adds one, so a session over n due cards ends after at most min(n, 20)
\* gradings: without a current card exactly when 20 are done or none is due.
C40_SessionEnds ==
    /\ [] ( view = "FLASHCARDS" =>
              /\ sessionReviewsCompleted <= SESSION_BATCH_SIZE
              /\ sessionReviewsCompleted >= SESSION_BATCH_SIZE => currentCard = NoCard
              /\ MountedTimers = {} =>
                   ( currentCard = NoCard <=>
                       \/ sessionReviewsCompleted >= SESSION_BATCH_SIZE
                       \/ getDueItems(srsState, -1, now) = << >> ) )
    /\ [][ ( /\ view = "FLASHCARDS"
             /\ sessionReviewsCompleted >= SESSION_BATCH_SIZE
             /\ currentCard' # NoCard ) => sessionReviewsCompleted' = 0 ]_vars
    /\ [][ SessionCommit =>
             LET id == Head(timers).card.id
             IN  /\ TimeLeq(TimePlusMs(now, RelearnMs), srsState'[FindSrs(srsState', id)].dueDate)
                 /\ sessionReviewsCompleted' = sessionReviewsCompleted + 1
                 /\ currentCard' # NoCard => currentCard'.id # id
                 /\ Cardinality(SessionBacklog') = Cardinality(SessionBacklog) - 1 ]_vars
    /\ [][ ( view = "FLASHCARDS" /\ view' = "FLASHCARDS" ) =>
             SessionBacklog' \subseteq SessionBacklog ]_vars

\* a session of 20 gradings over 21 due cards was completed, "Review More"
\* served the last card, and the session ended after its one grading
C40_Witness ==
    /\ view = "FLASHCARDS"
    /\ Len(srsState) = 21
    /\ student.dailyProgress.reviewsDoneToday = 21
    /\ sessionReviewsCompleted = 1
    /\ currentCard = NoCard
    /\ timers = << >>

====
